---- MODULE Spec2Model ----
(***************************************************************************)
(* Verification model of the cores of the golang-journey repository.       *)
(*                                                                         *)
(* Edge cache (projects/09-edge-cache-cdn): the LRU response store         *)
(* (package cache) and the caching proxy with its request coalescer        *)
(* (package edge).                                                         *)
(* Observability pipeline (projects/08-observability-pipeline): the tail   *)
(* sampler and the batch processor (package processor), the Pipeline with  *)
(* its run goroutine and the handlers of its receiver.                     *)
(* CRDTs (projects/03-crdt-collab-backend, package crdt): OR-Set,          *)
(* PN-Counter and RGA replicas, vector clocks.                             *)
(* Challenges: the write-ahead log (03), the adaptive rate limiter (01),   *)
(* the circuit breaker (05) and the SWIM cluster (09).                     *)
(* Time-series database (projects/06-timeseries-db): the Gorilla chunk.    *)
(*                                                                         *)
(* Each part has its own variables and its own specification; the actions  *)
(* of one part leave the variables of the others unchanged.                *)
(*                                                                         *)
(* Time is a logical clock `now`; a time.Duration is a number of ticks.    *)
(* Cache keys are strings, modelled as sequences of characters 1..2.       *)
(***************************************************************************)
EXTENDS Integers, Sequences, FiniteSets, TLC

\* ------------------------------------------------------------------ bounds

\* Last tick of the logical clock.
MaxTime == 2
\* Config.DefaultTTL and Config.StaleGracePeriod, in ticks.
DefaultTTL == 1
StaleGracePeriod == 2
\* The clock of the Store's direct callers runs on past MaxTime, so that entries
\* stored early are seen at and after the end of their stale window.
Horizon == MaxTime + DefaultTTL + 1
\* Requests handled by the proxy, and how many of them at once.
NReq == 3
MaxActive == 2

VARIABLES
    now,        \* time.Now()
    store,      \* cache.Store: capacity, items (key -> element id), lru (list of elements)
    last,       \* the last Store call of a direct caller and what it returned
    uses,       \* keys in order of their most recent use, most recent first
    pc,         \* Proxy.ServeHTTP: each request's position in the handler
    req,        \* each request's locals: key, method, now, joined call, cr, err
    reply,      \* what each request wrote to its http.ResponseWriter
    bg,         \* the background revalidation goroutine a stale hit spawned
    inflight,   \* coalescer.inflight: key -> call (named by the request that made it)
    calls,      \* the inflightCall objects: done, resp, err
    fetches     \* origin requests answered so far (numbers the response objects)

storeVars == <<store, last, uses>>
proxyVars == <<pc, req, reply, bg, inflight, calls, fetches>>

\* processor.TailSampler
VARIABLES
    tsBuf,      \* TailSampler.buf: trace id -> traceBuffer (spans, arrivedAt, hasError)
    tsSeen,     \* for each trace id, when its most recent span was handed to Process
    tsLast,     \* the last TailSampler.Process call: the traces decided, the result
    spanSeq     \* spans created so far (names the Span objects)

samplerVars == <<tsBuf, tsSeen, tsLast, spanSeq>>

\* processor.BatchProcessor
VARIABLES
    bpPending,  \* BatchProcessor.pending: its Kind and its items
    bpSince,    \* when the pending batch received its first item
    bpOut,      \* the items of the batches Process has returned
    bpSeq       \* items created so far (names the items)

batchVars == <<bpPending, bpSince, bpOut, bpSeq>>

\* pipeline.Pipeline with its receiver's handlers
VARIABLES
    plCh,        \* Pipeline.ch: the batches buffered in the channel, oldest first
    plClosed,    \* whether Pipeline.ch has been closed
    plCtxDone,   \* whether the context handed to Start has been cancelled
    plAccepting, \* whether the receiver's HTTP server accepts requests
    plRun,       \* the goroutine Pipeline.run: its position and the batch it holds
    plStop,      \* the caller of Pipeline.Stop: its position, the batches sent before
    plHandlers,  \* the receiver's request handlers: position and batch of each
    plSent,      \* the batches sent into the channel so far
    plProcessed, \* the batches processBatch has been called on
    plTrace,     \* the component calls processBatch made for the last batch
    plSeq        \* batches created so far (names the Batch objects)

pipeVars == <<plCh, plClosed, plCtxDone, plAccepting, plRun, plStop, plHandlers,
              plSent, plProcessed, plTrace, plSeq>>

\* package crdt: one object of each type per replica
VARIABLES
    orElements, \* ORSet.elements of each replica: value -> set of add-tags
    orHist,     \* the Add, Remove and Merge calls made on the OR-Sets so far
    pnCounter,  \* PNCounter.positive and .negative of each replica: node id -> sum
    pnHist,     \* the deltas handed to Increment and Decrement, the Merge calls made
    rgaState,   \* RGA.nodes, .index and .seqNo of each replica
    rgaHist,    \* the operations handed to Apply on each replica
    crdtLast    \* the last call on a CRDT object and how it ended

crdtVars == <<orElements, orHist, pnCounter, pnHist, rgaState, rgaHist, crdtLast>>

\* crdt.VClock
VARIABLES
    vcClocks,  \* the VClock values two nodes hold: node id -> counter
    vcLast     \* the last VClock method called, its arguments and how it ended

vclockVars == <<vcClocks, vcLast>>

\* The write-ahead log (challenge 03)
VARIABLES
    walStore,  \* WAL.store: the in-memory key-value map
    walHist    \* the calls made on the WAL so far, each with how it ended

walVars == <<walStore, walHist>>

\* The adaptive rate limiter (challenge 01)
VARIABLES
    rlLimiter,  \* the rate and burst of the AdaptiveRateLimiter
    rlHist      \* the calls made on the limiter so far, each with how it ended

limiterVars == <<rlLimiter, rlHist>>

\* The circuit breaker (challenge 05)
VARIABLES
    cbState,  \* CircuitBreaker.state
    cbHist    \* the calls made on the breaker (and the sleeps between them) so far

breakerVars == <<cbState, cbHist>>

\* NewChunk: a fresh chunk. buf holds the bits written so far (the bytes of
\* the code are these bits, padded with zero bits to a whole byte); a uint64
\* is the set of the positions of its one bits.
NewChunk == [buf |-> <<>>, bitPos |-> 0, numSamples |-> 0, tLast |-> 0, tDeltaLast |-> 0,
             vLast |-> {}, vLeadLast |-> 0, vMeanLast |-> 0]

\* Config.Concurrency: the worker goroutines of the pool.
Concurrency == 2
Workers == 1..Concurrency

\* CircuitState values.
StateClosed == 0
StateOpen == 1
StateHalfOpen == 2

\* The SWIM cluster (challenge 09)
VARIABLES
    swMembers,  \* the membership list of each node of the cluster: node -> member -> MemberInfo
    swHist      \* the calls made on the cluster so far, each with how it ended

swimVars == <<swMembers, swHist>>

\* The Gorilla chunk of the time-series database (project 06)
VARIABLES
    gcChunk,     \* the head Chunk of a Series
    gcAppended,  \* the samples passed to Append so far
    gcLast       \* the last call on the series or the chunk and how it ended

chunkVars == <<gcChunk, gcAppended, gcLast>>

\* The streaming pipeline (challenge 07)
VARIABLES
    spSunk,  \* the items the sink stage has recorded
    spHist   \* the calls made on the streaming pipeline so far, each with how it ended

streamVars == <<spSunk, spHist>>

\* The task scheduler: store and worker pool (project 02)
VARIABLES
    tkTasks,     \* the tasks in the store: id -> Task
    tkHandlers,  \* Pool.handlers: the task types with a registered handler
    tkCtxDone,   \* whether the context given to Pool.Start is cancelled
    tkWorkers,   \* each worker goroutine: where it is, the task it claimed last, how the handler ended and the store calls made for the task
    tkDrain      \* where the caller of Pool.Drain is

poolVars == <<tkTasks, tkHandlers, tkCtxDone, tkWorkers, tkDrain>>

\* Collaboration hub (project 03, package session)
VARIABLES
    hubDoc,    \* the Document of the hub: its rga, sessions and whether mu is held
    hubInbox,  \* the messages pushed to each session, in order
    hubHist    \* the calls made on the Hub so far, with what each did

hubVars == <<hubDoc, hubInbox, hubHist>>

\* session.NewDocument: an empty RGA, no session, mu free.
SessionIds == 1..2
NewDocument ==
    [rga |-> [nodes |-> <<>>, index |-> <<>>, seqNo |-> 0], sessions |-> {},
     mu |-> "free"]

\* The variables outside each part: what its actions leave unchanged.
notEdge == <<samplerVars, batchVars, pipeVars, crdtVars, vclockVars, walVars,
             limiterVars, breakerVars, swimVars, chunkVars, streamVars,
             poolVars, hubVars>>
notSampler == <<storeVars, proxyVars, batchVars, pipeVars, crdtVars,
                vclockVars, walVars, limiterVars, breakerVars, swimVars,
                chunkVars, streamVars, poolVars, hubVars>>
notBatch == <<storeVars, proxyVars, samplerVars, pipeVars, crdtVars,
              vclockVars, walVars, limiterVars, breakerVars, swimVars,
              chunkVars, streamVars, poolVars, hubVars>>
notPipe == <<now, storeVars, proxyVars, samplerVars, batchVars, crdtVars,
             vclockVars, walVars, limiterVars, breakerVars, swimVars,
             chunkVars, streamVars, poolVars, hubVars>>
notCrdt == <<now, storeVars, proxyVars, samplerVars, batchVars, pipeVars,
             vclockVars, walVars, limiterVars, breakerVars, swimVars,
             chunkVars, streamVars, poolVars, hubVars>>
notVClock == <<now, storeVars, proxyVars, samplerVars, batchVars, pipeVars,
               crdtVars, walVars, limiterVars, breakerVars, swimVars,
               chunkVars, streamVars, poolVars, hubVars>>
notWal == <<now, storeVars, proxyVars, samplerVars, batchVars, pipeVars,
            crdtVars, vclockVars, limiterVars, breakerVars, swimVars,
            chunkVars, streamVars, poolVars, hubVars>>
notLimiter == <<now, storeVars, proxyVars, samplerVars, batchVars, pipeVars,
                crdtVars, vclockVars, walVars, breakerVars, swimVars,
                chunkVars, streamVars, poolVars, hubVars>>
notBreaker == <<now, storeVars, proxyVars, samplerVars, batchVars, pipeVars,
                crdtVars, vclockVars, walVars, limiterVars, swimVars,
                chunkVars, streamVars, poolVars, hubVars>>
notSwim == <<now, storeVars, proxyVars, samplerVars, batchVars, pipeVars,
             crdtVars, vclockVars, walVars, limiterVars, breakerVars,
             chunkVars, streamVars, poolVars, hubVars>>
notChunk == <<now, storeVars, proxyVars, samplerVars, batchVars, pipeVars,
              crdtVars, vclockVars, walVars, limiterVars, breakerVars,
              swimVars, streamVars, poolVars, hubVars>>
notStream == <<now, storeVars, proxyVars, samplerVars, batchVars, pipeVars,
               crdtVars, vclockVars, walVars, limiterVars, breakerVars,
               swimVars, chunkVars, poolVars, hubVars>>
notPool == <<now, storeVars, proxyVars, samplerVars, batchVars, pipeVars,
             crdtVars, vclockVars, walVars, limiterVars, breakerVars,
             swimVars, chunkVars, streamVars, hubVars>>
notHub == <<now, storeVars, proxyVars, samplerVars, batchVars, pipeVars,
            crdtVars, vclockVars, walVars, limiterVars, breakerVars,
            swimVars, chunkVars, streamVars, poolVars>>

vars == <<now, store, last, uses, pc, req, reply, bg, inflight, calls,
          fetches, samplerVars, batchVars, pipeVars, crdtVars, vclockVars,
          walVars, limiterVars, breakerVars, swimVars, chunkVars, streamVars,
          poolVars, hubVars>>

\* ------------------------------------------------------------ cache keys

\* Key(r) = r.Host + r.URL.RequestURI(): the keys the model uses.
Keys == {<<1>>, <<1, 2>>, <<2>>}
\* Prefixes handed to Purge: the empty one, ones that match, one longer than
\* every key that starts like it.
Prefixes == {<<>>, <<1>>, <<1, 2>>, <<2>>, <<2, 1>>}
\* Config.CacheCapacity: smaller than the set of keys, so that a full store is reached.
Capacity == Cardinality(Keys) - 1
\* Response bodies a direct caller of the Store hands to Set.
Bodies == {1, 2}

\* A match of the whole key instead of its beginning.
HasPrefix_WholeKey(key, prefix) == key = prefix

\* key[:len(prefix)] == prefix, guarded by len(key) >= len(prefix)
HasPrefix(key, prefix) ==
    /\ Len(key) >= Len(prefix)
    /\ SubSeq(key, 1, Len(prefix)) = prefix

\* ------------------------------------------------------ CachedResponse

\* The nil *CachedResponse.
Nil == [id |-> 0, status |-> 0, header |-> "", cachedAt |-> 0, expires |-> 0,
        staleUntil |-> 0]

\* now.After(r.Expires)
IsExpired(r, t) == t > r.expires

\* A stale window that includes its last instant.
IsStale_Inclusive(r, t) == t > r.expires /\ t <= r.staleUntil

\* r.IsExpired(now) && now.Before(r.StaleUntil)
IsStale(r, t) == IsExpired(r, t) /\ t < r.staleUntil

\* now.Sub(r.CachedAt)
Age(r, t) == t - r.cachedAt

\* ------------------------------------------------ container/list and map

Range(f) == {f[x] : x \in DOMAIN f}

ElemIds(l) == {l[i].id : i \in DOMAIN l}

\* The element of the list with this id.
ElemOf(l, id) == CHOOSE e \in Range(l) : e.id = id

ListRemove(l, id) == SelectSeq(l, LAMBDA e : e.id # id)

ListMoveToFront(l, id) ==
    IF id \in ElemIds(l) THEN <<ElemOf(l, id)>> \o ListRemove(l, id) ELSE l

ListPushFront(l, e) == <<e>> \o l

ListBack(l) == l[Len(l)]

MapDelete(m, k) == [x \in DOMAIN m \ {k} |-> m[x]]

MapPut(m, k, v) == [x \in DOMAIN m \cup {k} |-> IF x = k THEN v ELSE m[x]]

\* A new list element: the lowest id no live element has.
NewElemId(s) ==
    CHOOSE n \in 1..(Len(s.lru) + Cardinality(DOMAIN s.items) + 1) :
        /\ n \notin ElemIds(s.lru) \cup Range(s.items)
        /\ \A m \in 1..(n - 1) : m \in ElemIds(s.lru) \cup Range(s.items)

\* ------------------------------------------------------------------ Store

\* cache.New(capacity)
New(capacity) == [capacity |-> capacity, items |-> <<>>, lru |-> <<>>]

\* A Get that returns the entry without moving it to the front.
StoreGet_NoTouch(s, key, t) ==
    IF key \notin DOMAIN s.items
    THEN [store |-> s, ret |-> Nil]
    ELSE LET id == s.items[key]
             e == ElemOf(s.lru, id)
         IN IF ~IsStale(e.resp, t) /\ IsExpired(e.resp, t)
            THEN [store |-> [s EXCEPT !.lru = ListRemove(s.lru, id),
                                      !.items = MapDelete(s.items, key)],
                  ret |-> Nil]
            ELSE [store |-> s, ret |-> e.resp]

\* Store.Get at time t: the store afterwards and the response returned.
StoreGet(s, key, t) ==
    IF key \notin DOMAIN s.items
    THEN [store |-> s, ret |-> Nil]
    ELSE LET id == s.items[key]
             e == ElemOf(s.lru, id)
         IN IF ~IsStale(e.resp, t) /\ IsExpired(e.resp, t)
            THEN [store |-> [s EXCEPT !.lru = ListRemove(s.lru, id),
                                      !.items = MapDelete(s.items, key)],
                  ret |-> Nil]
            ELSE [store |-> [s EXCEPT !.lru = ListMoveToFront(s.lru, id)],
                  ret |-> e.resp]

\* An eviction that lets the list grow one past the capacity.
Evict_OffByOne(s) ==
    IF Len(s.lru) > s.capacity /\ Len(s.lru) > 0
    THEN LET oldest == ListBack(s.lru)
         IN [s EXCEPT !.lru = ListRemove(s.lru, oldest.id),
                      !.items = MapDelete(s.items, oldest.key)]
    ELSE s

\* The eviction step of Store.Set: at capacity, drop the back of the list.
Evict(s) ==
    IF Len(s.lru) >= s.capacity /\ Len(s.lru) > 0
    THEN LET oldest == ListBack(s.lru)
         IN [s EXCEPT !.lru = ListRemove(s.lru, oldest.id),
                      !.items = MapDelete(s.items, oldest.key)]
    ELSE s

\* Store.Set
StoreSet(s, key, resp) ==
    IF key \in DOMAIN s.items
    THEN LET id == s.items[key]
             moved == ListMoveToFront(s.lru, id)
         IN [s EXCEPT !.lru = [i \in DOMAIN moved |->
                                  IF moved[i].id = id
                                  THEN [moved[i] EXCEPT !.resp = resp]
                                  ELSE moved[i]]]
    ELSE LET s1 == Evict(s)
             id == NewElemId(s1)
         IN [s1 EXCEPT !.lru = ListPushFront(s1.lru, [id |-> id, key |-> key, resp |-> resp]),
                       !.items = MapPut(s1.items, key, id)]

\* A Delete that drops the key from the map and leaves its list element.
StoreDelete_MapOnly(s, key) ==
    IF key \in DOMAIN s.items
    THEN [s EXCEPT !.items = MapDelete(s.items, key)]
    ELSE s

\* Store.Delete
StoreDelete(s, key) ==
    IF key \in DOMAIN s.items
    THEN [s EXCEPT !.lru = ListRemove(s.lru, s.items[key]),
                   !.items = MapDelete(s.items, key)]
    ELSE s

\* The keys the loop of Store.Purge removes.
PurgeMatches(s, prefix) == {k \in DOMAIN s.items : HasPrefix(k, prefix)}

\* Store.Purge: the store afterwards and the count returned.
StorePurge(s, prefix) ==
    LET gone == PurgeMatches(s, prefix)
        ids == {s.items[k] : k \in gone}
    IN [store |-> [s EXCEPT !.lru = SelectSeq(s.lru, LAMBDA e : e.id \notin ids),
                            !.items = [k \in DOMAIN s.items \ gone |-> s.items[k]]],
        ret |-> Cardinality(gone)]

\* Store.Stats
StoreStats(s) == <<Len(s.lru), s.capacity>>

\* The keys held, front of the list first, and the response held for a key.
LruKeys(s) == [i \in DOMAIN s.lru |-> s.lru[i].key]
Held(s) == {s.lru[i].key : i \in DOMAIN s.lru}
RespOf(s, key) == (CHOOSE e \in Range(s.lru) : e.key = key).resp

\* ------------------------------------------------------------- origin

\* A parser that reports the no-store directive.
ParseCacheControl_NoStore(header) ==
    [maxAge |-> 0, swr |-> 0, noStore |-> header = "no-store"]

\* cache.ParseCacheControl: (maxAge, swr, noStore) of a Cache-Control header.
\* Its body ignores the header.
ParseCacheControl(header) == [maxAge |-> 0, swr |-> 0, noStore |-> FALSE]

\* The CachedResponse fetchOrigin builds at time t from the origin's answer.
FetchOriginResp(id, status, header, t) ==
    LET p == ParseCacheControl(header)
        maxAge0 == IF p.noStore THEN -1 ELSE p.maxAge
        maxAge == IF maxAge0 = 0 THEN DefaultTTL ELSE maxAge0
        swr == IF p.swr = 0 THEN StaleGracePeriod ELSE p.swr
    IN [id |-> id, status |-> status, header |-> header, cachedAt |-> t,
        expires |-> t + maxAge, staleUntil |-> t + maxAge + swr]

\* What an origin request ends in: a transport error, or a response with a status.
Outcomes == {[err |-> TRUE, status |-> 0, header |-> ""],
             [err |-> FALSE, status |-> 200, header |-> ""],
             [err |-> FALSE, status |-> 500, header |-> ""]}

\* Origin answers that differ in their Cache-Control header.
HeaderOutcomes == {[err |-> FALSE, status |-> 200, header |-> ""],
                   [err |-> FALSE, status |-> 200, header |-> "no-store"]}

\* fetchOrigin's (response, error) for an outcome, the n-th origin response, at time t.
FetchOrigin(outcome, n, t) ==
    IF outcome.err
    THEN [resp |-> Nil, err |-> TRUE]
    ELSE [resp |-> FetchOriginResp(n, outcome.status, outcome.header, t), err |-> FALSE]

\* isCacheable: GET and HEAD requests.
IsCacheable(method) == method \in {"GET", "HEAD"}

\* isCacheableStatus
IsCacheableStatus(code) == code \in {200, 203, 204, 206, 300, 301, 404, 410}

\* ---------------------------------------------------------------- state

Reqs == 1..NReq

\* The receiver's concurrent request handlers (one goroutine per request).
Handlers == 1..2

\* The replicas of a CRDT; each calls its objects under its own node id.
Replicas == 1..2
Methods == {"GET", "POST"}

NoCall == [op |-> "none", key |-> <<>>, at |-> 0, ret |-> Nil, count |-> 0, removed |-> {}]
NoReq == [key |-> <<>>, method |-> "", now |-> 0, joined |-> 0, cr |-> Nil, err |-> FALSE]
NoReply == [xcache |-> "", resp |-> Nil]
NoBg == [pc |-> "none", key |-> <<>>, cr |-> Nil]
NoInflightCall == [made |-> FALSE, done |-> FALSE, resp |-> Nil, err |-> FALSE]

Init ==
    /\ now = 0
    /\ store = New(Capacity)
    /\ last = NoCall
    /\ uses = <<>>
    /\ pc = [r \in Reqs |-> "idle"]
    /\ req = [r \in Reqs |-> NoReq]
    /\ reply = [r \in Reqs |-> NoReply]
    /\ bg = [r \in Reqs |-> NoBg]
    /\ inflight = <<>>
    /\ calls = [r \in Reqs |-> NoInflightCall]
    /\ fetches = 0
    /\ tsBuf = <<>>
    /\ tsSeen = <<>>
    /\ tsLast = [called |-> FALSE, at |-> 0, decided |-> {}, out |-> {}, nil |-> TRUE]
    /\ spanSeq = 0
    /\ bpPending = [kind |-> "", items |-> <<>>]
    /\ bpSince = 0
    /\ bpOut = {}
    /\ bpSeq = 0
    /\ plCh = <<>>
    /\ plClosed = FALSE
    /\ plCtxDone = FALSE
    /\ plAccepting = FALSE
    /\ plRun = [pc |-> "none", batch |-> 0]
    /\ plStop = [pc |-> "none", sent |-> {}]
    /\ plHandlers = [h \in Handlers |-> [pc |-> "idle", batch |-> 0]]
    /\ plSent = {}
    /\ plProcessed = {}
    /\ plTrace = <<>>
    /\ plSeq = 0
    /\ orElements = [r \in Replicas |-> <<>>]
    /\ orHist = [tags |-> {}, observed |-> [r \in Replicas |-> {}], cleared |-> {},
                 merged |-> {}]
    /\ pnCounter = [r \in Replicas |-> [positive |-> <<>>, negative |-> <<>>]]
    /\ pnHist = [incs |-> 0, decs |-> 0, calls |-> 0, merged |-> {}]
    /\ rgaState = [r \in Replicas |-> [nodes |-> <<>>, index |-> <<>>, seqNo |-> 0]]
    /\ rgaHist = [r \in Replicas |-> {}]
    /\ crdtLast = [op |-> "none", replica |-> 0, result |-> "none"]
    /\ vcClocks = [r \in Replicas |-> <<>>]
    /\ vcLast = [op |-> "none", a |-> <<>>, b |-> <<>>, holds |-> FALSE,
                 clock |-> <<>>, result |-> "none"]
    /\ walStore = <<>>
    /\ walHist = <<>>
    /\ rlLimiter = [rate |-> 0, burst |-> 0]
    /\ rlHist = <<>>
    /\ cbState = StateClosed
    /\ cbHist = <<>>
    /\ swMembers = <<>>
    /\ swHist = <<>>
    /\ gcChunk = NewChunk
    /\ gcAppended = <<>>
    /\ gcLast = [op |-> "none", result |-> "none", samples |-> <<>>, err |-> "nil"]
    /\ spSunk = <<>>
    /\ spHist = <<>>
    /\ tkTasks = <<>>
    /\ tkHandlers = {}
    /\ tkCtxDone = FALSE
    /\ tkWorkers = [w \in Workers |-> [pc |-> "idle", task |-> 0, result |-> "none",
                                        calls |-> <<>>]]
    /\ tkDrain = "idle"
    /\ hubDoc = NewDocument
    /\ hubInbox = [s \in SessionIds |-> <<>>]
    /\ hubHist = <<>>

\* Time passes.
Tick ==
    /\ now < MaxTime
    /\ now' = now + 1
    /\ UNCHANGED <<notEdge, storeVars, proxyVars>>

\* ------------------------------------------- direct callers of the Store

\* A response a caller builds at time t.
MakeResp(body, t) == FetchOriginResp(body, 200, "", t)

\* The entries a call took out of the store.
Entries(s) == {[key |-> s.lru[i].key, resp |-> s.lru[i].resp] : i \in DOMAIN s.lru}
Removed(s, t) == {e \in Entries(s) : e.key \notin Held(t)}

\* The reference order of use: key becomes the most recent.
Touch(u, key) == <<key>> \o SelectSeq(u, LAMBDA k : k # key)

Get(key) ==
    LET r == StoreGet(store, key, now)
    IN /\ store' = r.store
       /\ last' = [op |-> "Get", key |-> key, at |-> now, ret |-> r.ret, count |-> 0,
                   removed |-> Removed(store, r.store)]
       /\ uses' = IF r.ret # Nil THEN Touch(uses, key) ELSE uses
       /\ UNCHANGED <<notEdge, now, proxyVars>>

Set(key, body) ==
    /\ store' = StoreSet(store, key, MakeResp(body, now))
    /\ last' = [op |-> "Set", key |-> key, at |-> now, ret |-> MakeResp(body, now),
                count |-> 0, removed |-> Removed(store, store')]
    /\ uses' = Touch(uses, key)
    /\ UNCHANGED <<notEdge, now, proxyVars>>

Delete(key) ==
    /\ store' = StoreDelete(store, key)
    /\ last' = [op |-> "Delete", key |-> key, at |-> now, ret |-> Nil, count |-> 0,
                removed |-> Removed(store, store')]
    /\ UNCHANGED <<notEdge, now, uses, proxyVars>>

Purge(prefix) ==
    LET r == StorePurge(store, prefix)
    IN /\ store' = r.store
       /\ last' = [op |-> "Purge", key |-> prefix, at |-> now, ret |-> Nil, count |-> r.ret,
                   removed |-> Removed(store, r.store)]
       /\ UNCHANGED <<notEdge, now, uses, proxyVars>>

\* Time passes for the direct callers of the Store.
Elapse ==
    /\ now < Horizon
    /\ now' = now + 1
    /\ UNCHANGED <<notEdge, storeVars, proxyVars>>

NextStore ==
    \/ Elapse
    \/ \E key \in Keys : Get(key)
    \/ \E key \in Keys, body \in Bodies : Set(key, body)
    \/ \E key \in Keys : Delete(key)
    \/ \E prefix \in Prefixes : Purge(prefix)

\* Callers of the Store alone: any sequence of Get, Set, Delete and Purge as time passes.
SpecStore == Init /\ [][NextStore]_vars

\* ------------------------------------------------------------ coalescer

\* A waiter that returns the call's response and drops its error.
WaitResult_DropErr(call) == [cr |-> call.resp, err |-> FALSE]

\* What a caller of coalescer.do returns from a call it waited on.
WaitResult(call) == [cr |-> call.resp, err |-> call.err]

\* coalescer.do that registers its own call without looking for one in flight.
DoEnter_NoJoin(r) ==
    /\ pc[r] = "do"
    /\ calls' = [calls EXCEPT ![r] = [NoInflightCall EXCEPT !.made = TRUE]]
    /\ inflight' = MapPut(inflight, req[r].key, r)
    /\ pc' = [pc EXCEPT ![r] = "fetching"]
    /\ UNCHANGED <<notEdge, now, storeVars, req, reply, bg, fetches>>

\* coalescer.do, under c.mu: join the call registered for the key, or register one.
DoEnter(r) ==
    /\ pc[r] = "do"
    /\ LET key == req[r].key
       IN IF key \in DOMAIN inflight
          THEN /\ req' = [req EXCEPT ![r].joined = inflight[key]]
               /\ pc' = [pc EXCEPT ![r] = "wait"]
               /\ UNCHANGED <<inflight, calls>>
          ELSE /\ calls' = [calls EXCEPT ![r] = [NoInflightCall EXCEPT !.made = TRUE]]
               /\ inflight' = MapPut(inflight, key, r)
               /\ pc' = [pc EXCEPT ![r] = "fetching"]
               /\ UNCHANGED req
    /\ UNCHANGED <<notEdge, now, storeVars, reply, bg, fetches>>

\* call.resp, call.err = fn(): the origin answers the request fn sent.
FetchEnd(r, outcome) ==
    /\ pc[r] = "fetching"
    /\ LET got == FetchOrigin(outcome, fetches + 1, now)
       IN calls' = [calls EXCEPT ![r].resp = got.resp, ![r].err = got.err]
    /\ fetches' = fetches + 1
    /\ pc' = [pc EXCEPT ![r] = "close"]
    /\ UNCHANGED <<notEdge, now, storeVars, req, reply, bg, inflight>>

\* close(call.done)
CloseDone(r) ==
    /\ pc[r] = "close"
    /\ calls' = [calls EXCEPT ![r].done = TRUE]
    /\ pc' = [pc EXCEPT ![r] = "delete"]
    /\ UNCHANGED <<notEdge, now, storeVars, req, reply, bg, inflight, fetches>>

\* A return from coalescer.do that leaves the entry in the map.
DeleteInflight_KeepEntry(r) ==
    /\ pc[r] = "delete"
    /\ inflight' = inflight
    /\ req' = [req EXCEPT ![r].cr = calls[r].resp, ![r].err = calls[r].err]
    /\ pc' = [pc EXCEPT ![r] = "ret"]
    /\ UNCHANGED <<notEdge, now, storeVars, reply, bg, calls, fetches>>

\* delete(c.inflight, key) under c.mu, then return call.resp, call.err
DeleteInflight(r) ==
    /\ pc[r] = "delete"
    /\ inflight' = MapDelete(inflight, req[r].key)
    /\ req' = [req EXCEPT ![r].cr = calls[r].resp, ![r].err = calls[r].err]
    /\ pc' = [pc EXCEPT ![r] = "ret"]
    /\ UNCHANGED <<notEdge, now, storeVars, reply, bg, calls, fetches>>

\* <-call.done, then return call.resp, call.err
Wait(r) ==
    /\ pc[r] = "wait"
    /\ calls[req[r].joined].done
    /\ LET got == WaitResult(calls[req[r].joined])
       IN req' = [req EXCEPT ![r].cr = got.cr, ![r].err = got.err]
    /\ pc' = [pc EXCEPT ![r] = "ret"]
    /\ UNCHANGED <<notEdge, now, storeVars, reply, bg, inflight, calls, fetches>>

\* ---------------------------------------------------------------- Proxy

\* Requests are interchangeable: they arrive in the order of their numbers, at
\* most MaxActive of them inside ServeHTTP at once.
MayArrive(r) ==
    /\ pc[r] = "idle"
    /\ \A q \in Reqs : q < r => pc[q] # "idle"
    /\ Cardinality({q \in Reqs : pc[q] \notin {"idle", "done"}}) < MaxActive

\* A cacheable request reaches ServeHTTP: cache.Key(r), now := time.Now().
Arrive(r, key, method) ==
    /\ MayArrive(r)
    /\ IsCacheable(method)
    /\ req' = [req EXCEPT ![r] = [NoReq EXCEPT !.key = key, !.method = method, !.now = now]]
    /\ pc' = [pc EXCEPT ![r] = "lookup"]
    /\ UNCHANGED <<notEdge, now, storeVars, reply, bg, inflight, calls, fetches>>

\* A request that is not cacheable: pass sends it to the origin and serves the
\* answer; it reads and writes neither the store nor the coalescer.
Pass(r, method, outcome) ==
    /\ MayArrive(r)
    /\ ~IsCacheable(method)
    /\ reply' = [reply EXCEPT ![r] =
                    IF outcome.err THEN [xcache |-> "ERROR", resp |-> Nil]
                    ELSE [xcache |-> "BYPASS", resp |-> Nil]]
    /\ fetches' = fetches + 1
    /\ pc' = [pc EXCEPT ![r] = "done"]
    /\ UNCHANGED <<notEdge, now, storeVars, req, bg, inflight, calls>>

\* p.store.Get(key) and the branch on what it returned: a fresh entry is served
\* as a HIT, a stale one goes to the stale branch, anything else is a miss.
Lookup(r) ==
    /\ pc[r] = "lookup"
    /\ LET got == StoreGet(store, req[r].key, now)
           resp == got.ret
       IN /\ store' = got.store
          /\ IF resp # Nil /\ ~IsExpired(resp, req[r].now)
             THEN /\ reply' = [reply EXCEPT ![r] = [xcache |-> "HIT", resp |-> resp]]
                  /\ pc' = [pc EXCEPT ![r] = "done"]
                  /\ req' = [req EXCEPT ![r] = NoReq]
             ELSE IF resp # Nil /\ IsStale(resp, req[r].now)
             THEN /\ req' = [req EXCEPT ![r].cr = resp]
                  /\ pc' = [pc EXCEPT ![r] = "stale"]
                  /\ UNCHANGED reply
             ELSE /\ pc' = [pc EXCEPT ![r] = "do"]
                  /\ UNCHANGED <<req, reply>>
    /\ UNCHANGED <<notEdge, now, last, uses, bg, inflight, calls, fetches>>

\* A stale branch that revalidates before it answers: the request goes on to
\* the origin like a miss.
StaleHit_FetchFirst(r) ==
    /\ pc[r] = "stale"
    /\ pc' = [pc EXCEPT ![r] = "do"]
    /\ UNCHANGED <<notEdge, now, storeVars, req, reply, bg, inflight, calls, fetches>>

\* The stale branch: serve the stale response, start the revalidation
\* goroutine, return.
StaleHit(r) ==
    /\ pc[r] = "stale"
    /\ reply' = [reply EXCEPT ![r] = [xcache |-> "STALE", resp |-> req[r].cr]]
    /\ bg' = [bg EXCEPT ![r] = [pc |-> "start", key |-> req[r].key, cr |-> Nil]]
    /\ pc' = [pc EXCEPT ![r] = "done"]
    /\ req' = [req EXCEPT ![r] = NoReq]
    /\ UNCHANGED <<notEdge, now, storeVars, inflight, calls, fetches>>

\* The revalidation goroutine sends its origin request (p.fetchOrigin).
BgFetchStart(r) ==
    /\ bg[r].pc = "start"
    /\ bg' = [bg EXCEPT ![r].pc = "fetching"]
    /\ UNCHANGED <<notEdge, now, storeVars, pc, req, reply, inflight, calls, fetches>>

\* cr, err := p.fetchOrigin(...) returns in the goroutine.
BgFetchEnd(r, outcome) ==
    /\ bg[r].pc = "fetching"
    /\ LET got == FetchOrigin(outcome, fetches + 1, now)
       IN bg' = [bg EXCEPT ![r].pc = IF got.err THEN "done" ELSE "set", ![r].cr = got.resp]
    /\ fetches' = fetches + 1
    /\ UNCHANGED <<notEdge, now, storeVars, pc, req, reply, inflight, calls>>

\* if err == nil { p.store.Set(key, cr) }
BgSet(r) ==
    /\ bg[r].pc = "set"
    /\ store' = StoreSet(store, bg[r].key, bg[r].cr)
    /\ bg' = [bg EXCEPT ![r].pc = "done"]
    /\ UNCHANGED <<notEdge, now, last, uses, pc, req, reply, inflight, calls, fetches>>

\* What ServeHTTP does with the store once coalesce.do returned (cr, err).
AfterDo(s, key, cr, err) ==
    IF ~err /\ IsCacheableStatus(cr.status) THEN StoreSet(s, key, cr) ELSE s

\* The rest of ServeHTTP after coalesce.do: 502 on error, else store and serve.
Finish(r) ==
    /\ pc[r] = "ret"
    /\ store' = AfterDo(store, req[r].key, req[r].cr, req[r].err)
    /\ reply' = [reply EXCEPT ![r] =
                    IF req[r].err THEN [xcache |-> "ERROR", resp |-> Nil]
                    ELSE [xcache |-> "MISS", resp |-> req[r].cr]]
    /\ pc' = [pc EXCEPT ![r] = "done"]
    /\ req' = [req EXCEPT ![r] = NoReq]
    /\ UNCHANGED <<notEdge, now, last, uses, bg, inflight, calls, fetches>>

\* Proxy.Purge(prefix), from the admin API (which refuses an empty prefix).
AdminPurge(prefix) ==
    /\ store' = StorePurge(store, prefix).store
    /\ UNCHANGED <<notEdge, now, last, uses, proxyVars>>

\* Proxy.Stats: the hit, miss and stale counters.
Stats ==
    [hits |-> Cardinality({r \in Reqs : reply[r].xcache = "HIT"}),
     misses |-> Cardinality({r \in Reqs : reply[r].xcache = "MISS"}),
     stales |-> Cardinality({r \in Reqs : reply[r].xcache = "STALE"})]

\* The keys requested through the proxy, and the prefixes its admin API purges.
ProxyKeys == {<<1>>, <<1, 2>>}
AdminPrefixes == {<<1, 2>>}

Serve(keys, outcomes) ==
    \/ Tick
    \/ \E r \in Reqs, key \in keys, method \in Methods : Arrive(r, key, method)
    \/ \E r \in Reqs, method \in Methods, outcome \in outcomes : Pass(r, method, outcome)
    \/ \E r \in Reqs : Lookup(r)
    \/ \E r \in Reqs : StaleHit(r)
    \/ \E r \in Reqs : DoEnter(r)
    \/ \E r \in Reqs, outcome \in outcomes : FetchEnd(r, outcome)
    \/ \E r \in Reqs : CloseDone(r)
    \/ \E r \in Reqs : DeleteInflight(r)
    \/ \E r \in Reqs : Wait(r)
    \/ \E r \in Reqs : Finish(r)
    \/ \E r \in Reqs : BgFetchStart(r)
    \/ \E r \in Reqs, outcome \in outcomes : BgFetchEnd(r, outcome)
    \/ \E r \in Reqs : BgSet(r)
    \/ \E prefix \in AdminPrefixes : AdminPurge(prefix)

\* Requests for the proxy's keys, the origin answering with or without an error.
Next == Serve(ProxyKeys, Outcomes)

\* Requests for one key, the origin answering with different Cache-Control headers.
NextHeaders == Serve({<<1, 2>>}, HeaderOutcomes)

\* The proxy serving requests concurrently, one goroutine per request.
Spec == Init /\ [][Next]_vars

\* The proxy in front of an origin that sets Cache-Control headers.
SpecHeaders == Init /\ [][NextHeaders]_vars

\* The same, with every goroutine that can take a step eventually scheduled.
FairSpec ==
    /\ Spec
    /\ \A r \in Reqs : WF_vars(BgFetchStart(r))
    /\ \A r \in Reqs : WF_vars(\E outcome \in Outcomes : BgFetchEnd(r, outcome))
    /\ \A r \in Reqs : WF_vars(BgSet(r))

\* The same, with every caller of coalescer.do that can close its call, take
\* its entry out of the map or get past the closed channel eventually doing so.
FairSpecDo ==
    /\ Spec
    /\ \A r \in Reqs : WF_vars(CloseDone(r))
    /\ \A r \in Reqs : WF_vars(DeleteInflight(r))
    /\ \A r \in Reqs : WF_vars(Wait(r))

\* ------------------------------------------------------------ properties

\* The requests inside fn (the origin fetch of the miss path) for a key.
InFn(key) == {r \in Reqs : pc[r] = "fetching" /\ req[r].key = key}

\* The revalidation goroutines with an origin request under way for a key.
Refreshing(key) == {r \in Reqs : bg[r].pc = "fetching" /\ bg[r].key = key}

\* C1: single flight. For each key at most one caller of coalescer.do is inside
\* fn at a time; a caller that found a call registered never runs fn itself, gets
\* past the wait only once that call is complete, and returns that call's
\* (response, error) pair, which is also what the caller that ran fn returns.
C1_SingleFlight ==
    /\ \A key \in ProxyKeys : Cardinality(InFn(key)) <= 1
    /\ \A r \in Reqs :
          req[r].joined # 0 =>
              /\ ~calls[r].made
              /\ calls[req[r].joined].made
              /\ pc[r] = "ret" =>
                    /\ calls[req[r].joined].done
                    /\ pc[req[r].joined] \notin {"do", "fetching", "close"}
                    /\ req[r].cr = calls[req[r].joined].resp
                    /\ req[r].err = calls[req[r].joined].err
    /\ \A r \in Reqs :
          (pc[r] = "ret" /\ calls[r].made) =>
              /\ req[r].cr = calls[r].resp
              /\ req[r].err = calls[r].err

\* A waiter has returned the response of the one fetch its leader made.
C1_Witness ==
    \E r \in Reqs :
        /\ pc[r] = "ret"
        /\ req[r].joined # 0
        /\ req[r].cr # Nil
        /\ fetches = 1

\* Request r is past the return of fn in coalescer.do, its entry still in the map.
FnReturned(r) == pc[r] \in {"close", "delete"}

\* fn has returned in the call of request q, and the call still holds
\* something: its entry in the map, or a caller blocked on its done channel.
Holding(q) ==
    /\ calls[q].made
    /\ pc[q] \notin {"do", "fetching"}
    /\ \/ \E key \in DOMAIN inflight : inflight[key] = q
       \/ \E r \in Reqs : pc[r] = "wait" /\ req[r].joined = q

\* Whenever fn returns, the callers blocked on its call return and its entry
\* leaves the map: time and again no completed call holds anything.
WaitersReleased == []<>(\A q \in Reqs : ~Holding(q))

\* Request r takes the step of coalescer.do under c.mu.
Enters(r) == pc[r] = "do" /\ pc'[r] # "do"

C2_OneFetchPerMiss ==
    \A r, q \in Reqs :
        (/\ r # q
         /\ pc[r] = "ret"
         /\ calls[r].made
         /\ ~req[r].err
         /\ IsCacheableStatus(req[r].cr.status)
         /\ pc[q] = "fetching")
        => req[q].key # req[r].key

\* C3: stale storm. Every request that started a revalidation was served the
\* stale response, and at most one revalidation per key is fetching at a time.
C3_OneRefreshPerKey ==
    /\ \A r \in Reqs : bg[r].pc # "none" => reply[r].xcache = "STALE"
    /\ \A key \in ProxyKeys : Cardinality(Refreshing(key)) <= 1

\* C4: every entry of the store has a cacheable status.
C4_OnlyCacheableStored ==
    \A i \in DOMAIN store.lru : IsCacheableStatus(store.lru[i].resp.status)

\* C5: a failed origin fetch reaches the caller that ran it and every caller
\* coalesced onto it, each of them answers with an origin error, and neither
\* they nor a failed revalidation change the store.
C5_ErrorPropagates ==
    [][\A r \in Reqs :
          /\ (pc[r] = "delete" /\ pc'[r] = "ret" /\ calls[r].err) => req'[r].err
          /\ (pc[r] = "wait" /\ pc'[r] = "ret" /\ calls[req[r].joined].err) => req'[r].err
          /\ (pc[r] = "ret" /\ req[r].err /\ pc'[r] = "done") =>
                /\ reply'[r].xcache = "ERROR"
                /\ store' = store
          /\ (pc[r] = "fetching" /\ pc'[r] = "close" /\ calls'[r].err) =>
                /\ calls'[r].resp = Nil
                /\ store' = store
          /\ (bg[r].pc = "fetching" /\ bg'[r].pc = "done") => store' = store
      ]_vars

\* Two requests were coalesced onto one failed fetch and both answered with an
\* origin error; the store holds nothing.
C5_Witness ==
    \E r, q \in Reqs :
        /\ r # q
        /\ calls[r].made /\ calls[r].err
        /\ reply[r].xcache = "ERROR"
        /\ reply[q].xcache = "ERROR"
        /\ fetches = 1
        /\ store.lru = <<>>

\* C7: a stale hit is answered straight from the lookup, before the revalidation
\* sends its origin request and without a fetch or a wait in between; and a
\* revalidation whose fetch succeeded eventually leaves its response in the
\* store under the key.
C7_StaleThenRefresh ==
    /\ [][\A r \in Reqs :
             /\ (pc[r] = "stale" /\ pc'[r] # "stale") =>
                   /\ pc'[r] = "done"
                   /\ reply'[r] = [xcache |-> "STALE", resp |-> req[r].cr]
                   /\ fetches' = fetches
             /\ (bg[r].pc # "fetching" /\ bg'[r].pc = "fetching") =>
                   reply[r].xcache = "STALE"
         ]_vars
    /\ \A r \in Reqs :
          (bg[r].pc = "set") ~>
              (/\ bg[r].pc = "done"
               /\ bg[r].key \in Held(store)
               /\ RespOf(store, bg[r].key) = bg[r].cr)

\* A stale hit was served and its revalidation replaced the entry.
C7_Witness ==
    \E r \in Reqs :
        /\ reply[r].xcache = "STALE"
        /\ bg[r].pc = "done"
        /\ bg[r].cr # Nil
        /\ bg[r].key \in Held(store)
        /\ RespOf(store, bg[r].key) = bg[r].cr
        /\ reply[r].resp # bg[r].cr

\* ------------------------------------------------- properties of the Store

\* A step of a direct caller is a call of the operation `last` names afterwards.
Called(op) == now' = now /\ last'.op = op

\* C6 as claimed: an entry is fresh iff now <= expires and stale iff
\* expires < now <= stale_until; a fresh or stale entry is what Get returns, any
\* other is removed by Get, which returns nothing; Get never returns an entry
\* past its stale_until.
C6_StalenessAsClaimed ==
    /\ \A e \in Entries(store) :
          LET fresh == now <= e.resp.expires
              stale == e.resp.expires < now /\ now <= e.resp.staleUntil
              got == StoreGet(store, e.key, now)
          IN /\ ~IsExpired(e.resp, now) <=> fresh
             /\ IsStale(e.resp, now) <=> stale
             /\ (fresh \/ stale) => got.ret = e.resp
             /\ ~(fresh \/ stale) => (got.ret = Nil /\ e.key \notin Held(got.store))
    /\ (last.op = "Get" /\ last.ret # Nil) => last.at <= last.ret.staleUntil

\* C6, amended: an entry is fresh iff now <= expires and stale iff
\* expires < now < stale_until; a fresh or stale entry is what Get returns (and
\* keeps), any other -- from now = stale_until on, once past expires -- is removed
\* by Get, which returns nothing; so Get never returns an entry past its
\* stale_until, and every entry a Get removed was past expires and at or past
\* stale_until.
C6_Staleness ==
    /\ \A e \in Entries(store) :
          LET fresh == now <= e.resp.expires
              stale == e.resp.expires < now /\ now < e.resp.staleUntil
              got == StoreGet(store, e.key, now)
          IN /\ ~IsExpired(e.resp, now) <=> fresh
             /\ IsStale(e.resp, now) <=> stale
             /\ (fresh \/ stale) => (got.ret = e.resp /\ e.key \in Held(got.store))
             /\ ~(fresh \/ stale) => (got.ret = Nil /\ e.key \notin Held(got.store))
    /\ (last.op = "Get" /\ last.ret # Nil) =>
          /\ last.at <= last.ret.staleUntil
          /\ last.at <= last.ret.expires \/ last.at < last.ret.staleUntil
          /\ last.removed = {}
    /\ last.op = "Get" =>
          \A e \in last.removed :
              /\ e.key = last.key
              /\ last.ret = Nil
              /\ last.at > e.resp.expires
              /\ last.at >= e.resp.staleUntil

\* A Get at the very instant stale_until removed the entry and returned nothing.
C6_Witness ==
    /\ last.op = "Get"
    /\ last.ret = Nil
    /\ \E e \in last.removed : last.at = e.resp.staleUntil /\ e.resp.expires < last.at

\* C8: the store never holds more entries than its capacity (capacity >= 1), in
\* its list as in its map; and a Set of a key it does not hold, when it is full,
\* takes out exactly one entry and puts the new one in.
C8_CapacityBound ==
    /\ [](/\ store.capacity >= 1
          /\ Len(store.lru) <= store.capacity
          /\ Cardinality(DOMAIN store.items) <= store.capacity)
    /\ [][(/\ Called("Set")
           /\ last'.key \notin Held(store)
           /\ Len(store.lru) = store.capacity) =>
              /\ Cardinality(Held(store) \ Held(store')) = 1
              /\ Held(store') \ Held(store) = {last'.key}
              /\ Len(store'.lru) = store.capacity
         ]_vars

\* A Set on a full store has evicted an entry.
C8_Witness ==
    /\ last.op = "Set"
    /\ Cardinality(last.removed) = 1
    /\ Len(store.lru) = store.capacity
    /\ \A e \in last.removed : e.key # last.key

\* The key the reference LRU evicts: the held key whose last use is the oldest.
RefVictim == CHOOSE k \in Held(store) :
                \A i, j \in DOMAIN uses : (uses[i] = k /\ uses[j] \in Held(store)) => j <= i

\* C9: the store is a reference LRU. The keys in its list, front first, are the
\* held keys in the order of their last use (a Get that returned the entry, or
\* a Set of the key), most recent first; a Set of a new key on a full store
\* evicts the key whose last use is the oldest; a Set of a held key replaces its
\* response, moves it to the front and evicts nothing.
C9_ReferenceLRU ==
    /\ [](LruKeys(store) = SelectSeq(uses, LAMBDA k : k \in Held(store)))
    /\ [][/\ (/\ Called("Set")
              /\ last'.key \notin Held(store)
              /\ Len(store.lru) = store.capacity) =>
                 Held(store) \ Held(store') = {RefVictim}
          /\ (Called("Set") /\ last'.key \in Held(store)) =>
                 /\ Held(store') = Held(store)
                 /\ RespOf(store', last'.key) = last'.ret
                 /\ store'.lru[1].key = last'.key
                 /\ \A k \in Held(store) \ {last'.key} : RespOf(store', k) = RespOf(store, k)
         ]_vars

\* A Set evicted an entry that had been stored after the one it kept: a Get of
\* the older one in between had made the younger one the least recently used.
C9_Witness ==
    /\ last.op = "Set"
    /\ \E e \in last.removed :
          \E f \in Entries(store) :
              /\ f.key # last.key
              /\ f.resp.cachedAt < e.resp.cachedAt

\* C38: the map and the list of the store describe the same entries. Every key
\* of the map points to exactly one element of the list, whose entry carries
\* that key, and every element of the list is the one the map holds for its
\* key.
C38_MapMatchesList ==
    /\ \A k \in DOMAIN store.items :
          /\ Cardinality({i \in DOMAIN store.lru : store.lru[i].id = store.items[k]}) = 1
          /\ \A i \in DOMAIN store.lru :
                store.lru[i].id = store.items[k] => store.lru[i].key = k
    /\ \A i \in DOMAIN store.lru :
          /\ store.lru[i].key \in DOMAIN store.items
          /\ store.items[store.lru[i].key] = store.lru[i].id

\* A Delete took one entry out of a store that holds another.
C38_Witness ==
    /\ last.op = "Delete"
    /\ Cardinality(last.removed) = 1
    /\ Len(store.lru) >= 1
    /\ Cardinality(DOMAIN store.items) = Len(store.lru)

\* The key starts with the prefix: it is the prefix followed by something.
StartsWith(key, prefix) == \E n \in 0..Len(key) : SubSeq(key, 1, n) = prefix

\* C10: Purge(prefix) removes exactly the entries whose key starts with prefix
\* and returns how many they were; the other entries stay, with their
\* responses, in the same order in the list, and the map loses the same keys.
C10_PurgeFrame ==
    [][Called("Purge") =>
          LET prefix == last'.key
              kept == {k \in Held(store) : ~StartsWith(k, prefix)}
          IN /\ Held(store') = kept
             /\ last'.count = Cardinality(Held(store) \ kept)
             /\ store'.lru = SelectSeq(store.lru, LAMBDA e : e.key \in kept)
             /\ DOMAIN store'.items = kept
             /\ \A k \in kept : store'.items[k] = store.items[k]
      ]_vars

\* A Purge removed one entry by prefix and kept another.
C10_Witness ==
    /\ last.op = "Purge"
    /\ last.count = 1
    /\ Cardinality(last.removed) = 1
    /\ Len(store.lru) = 1
    /\ \A e \in last.removed : e.key # last.key

\* ------------------------------------------------- Cache-Control headers

\* The responses in flight: held by a request or by a revalidation.
Built == {req[r].cr : r \in Reqs} \cup {bg[r].cr : r \in Reqs}
             \cup {store.lru[i].resp : i \in DOMAIN store.lru}

\* C11: a response whose Cache-Control header carries no-store is never held
\* by the store and never served as HIT or STALE.
C11_NoStoreNotCached ==
    /\ \A i \in DOMAIN store.lru : store.lru[i].resp.header # "no-store"
    /\ \A r \in Reqs :
          reply[r].xcache \in {"HIT", "STALE"} => reply[r].resp.header # "no-store"

DecisionWait == 2
NumTraces == 2
AlwaysSampleErrors == TRUE

\* Trace ids, the spans created in a run and the sizes of an incoming batch.
TraceIds == 1..3
MaxSpans == 3
BatchLens == {1, 2}

\* Span.StatusCode: OTLP OK = 1, ERROR = 2.
StatusCodes == {1, 2}
SignalKinds == {"traces", "metrics"}

\* What an incoming batch is made of: the (trace id, status) of each span.
SpanShapes == [trace : TraceIds, status : StatusCodes]
BatchShapes == UNION {[1..n -> SpanShapes] : n \in BatchLens}
\* A batch of another signal carries no span.
ShapesOf(kind) == IF kind = "traces" THEN BatchShapes ELSE {<<>>}

\* The Batch of a shape, its spans being the next Span objects created.
MakeBatch(kind, shape, seq) ==
    [kind |-> kind,
     spans |-> IF kind = "traces"
               THEN [i \in DOMAIN shape |->
                        [id |-> seq + i, trace |-> shape[i].trace,
                         status |-> shape[i].status]]
               ELSE <<>>,
     points |-> IF kind = "traces" THEN 0 ELSE 1]

\* A keep rule with the error test inverted.
ShouldSample_ErrorsDropped(tb) ==
    IF AlwaysSampleErrors /\ ~tb.hasError THEN TRUE ELSE FALSE

\* TailSampler.shouldSample: after the error rule it keeps every trace.
ShouldSample(tb) ==
    IF AlwaysSampleErrors /\ tb.hasError THEN TRUE ELSE TRUE

\* The first loop of Process: buffer the incoming spans by trace id.
RECURSIVE BufferSpans(_, _, _)
BufferSpans(buf, spans, t) ==
    IF spans = <<>> THEN buf
    ELSE LET span == Head(spans)
             tb0 == IF span.trace \in DOMAIN buf THEN buf[span.trace]
                    ELSE [spans |-> <<>>, arrivedAt |-> t, hasError |-> FALSE]
             tb == [spans |-> Append(tb0.spans, span),
                    arrivedAt |-> tb0.arrivedAt,
                    hasError |-> tb0.hasError \/ span.status >= 2]
         IN BufferSpans(MapPut(buf, span.trace, tb), Tail(spans), t)

\* The traces the second loop of Process flushes at time t.
Due(buf, t) == {id \in DOMAIN buf : ~(t - buf[id].arrivedAt < DecisionWait)}

\* TailSampler.Process at time t: the buffer afterwards, the traces decided and
\* the batch returned (nil when no span was sampled). The spans of the result
\* are in map iteration order, which the model leaves out: out is their set.
TailSamplerProcess(buf, batch, t) ==
    IF batch.kind # "traces"
    THEN [buf |-> buf, decided |-> {}, out |-> Range(batch.spans), nil |-> FALSE]
    ELSE LET buf1 == BufferSpans(buf, batch.spans, t)
             due == Due(buf1, t)
             sampled == UNION {Range(buf1[id].spans) :
                                  id \in {d \in due : ShouldSample(buf1[d])}}
             buf2 == [id \in DOMAIN buf1 \ due |-> buf1[id]]
         IN [buf |-> buf2,
             decided |-> {[trace |-> id, spans |-> buf1[id].spans] : id \in due},
             out |-> sampled,
             nil |-> sampled = {}]

\* A caller hands a batch to the sampler.
SamplerProcess(kind, shape) ==
    /\ spanSeq + Len(MakeBatch(kind, shape, spanSeq).spans) <= MaxSpans
    /\ LET batch == MakeBatch(kind, shape, spanSeq)
           got == TailSamplerProcess(tsBuf, batch, now)
           seen == {batch.spans[i].trace : i \in DOMAIN batch.spans}
       IN /\ tsBuf' = got.buf
          /\ tsSeen' = [id \in DOMAIN tsSeen \cup seen |->
                           IF id \in seen THEN now ELSE tsSeen[id]]
          /\ tsLast' = [called |-> TRUE, at |-> now, decided |-> got.decided,
                        out |-> got.out, nil |-> got.nil]
          /\ spanSeq' = spanSeq + Len(batch.spans)
    /\ UNCHANGED <<notSampler, now>>

NextSampler ==
    \/ Elapse
    \/ \E kind \in SignalKinds : \E shape \in ShapesOf(kind) :
          SamplerProcess(kind, shape)

\* The tail sampler fed with batches while time passes.
SpecSampler == Init /\ [][NextSampler]_vars

HasErrorSpan(spans) == \E i \in DOMAIN spans : spans[i].status >= 2

\* C15: with AlwaysSampleErrors, a trace decided while it holds a span with
\* status ERROR is kept: every span buffered for it is in the batch returned.
C15_ErrorTracesKept ==
    \A d \in tsLast.decided :
        HasErrorSpan(d.spans) => ~tsLast.nil /\ Range(d.spans) \subseteq tsLast.out

\* A trace of several spans, one of them an error and one not, was decided.
C15_Witness ==
    \E d \in tsLast.decided :
        /\ Len(d.spans) >= 2
        /\ HasErrorSpan(d.spans)
        /\ \E i \in DOMAIN d.spans : d.spans[i].status < 2

\* C16: after every Process call the sampler buffers at most NumTraces traces.
C16_BufferBounded == Cardinality(DOMAIN tsBuf) <= NumTraces

\* C17: a trace is decided only when none of its spans was observed during the
\* last DecisionWait.
C17_DecidedAfterQuiet ==
    \A d \in tsLast.decided : tsLast.at - tsSeen[d.trace] >= DecisionWait

\* ======================================================================
\* Observability pipeline: the batch processor (package processor)
\* ======================================================================

\* NewBatch(maxSize, flushInterval), scaled to the model.
MaxSize == 3
FlushInterval == 1

\* Items handed to the batch processor in a run, and the sizes of a batch.
MaxItems == 5
ItemCounts == {0, 1, 2}

\* BatchProcessor.Process: the pending batch afterwards and the batch returned
\* (nil while fewer than maxSize items are pending).
BatchProcessorProcess(pending, batch) ==
    LET acc == [kind |-> IF pending.kind = "" THEN batch.kind ELSE pending.kind,
                items |-> pending.items \o batch.items]
    IN IF Len(acc.items) >= MaxSize
       THEN [pending |-> [kind |-> batch.kind, items |-> <<>>], out |-> acc.items,
             nil |-> FALSE]
       ELSE [pending |-> acc, out |-> <<>>, nil |-> TRUE]

\* The pipeline hands a batch of n items to the batch processor.
BatchProcess(kind, n) ==
    /\ bpSeq + n <= MaxItems
    /\ LET batch == [kind |-> kind, items |-> [i \in 1..n |-> bpSeq + i]]
           got == BatchProcessorProcess(bpPending, batch)
       IN /\ bpPending' = got.pending
          /\ bpOut' = bpOut \cup Range(got.out)
          /\ bpSince' = IF got.pending.items = <<>> THEN 0
                        ELSE IF bpPending.items = <<>> THEN now ELSE bpSince
    /\ bpSeq' = bpSeq + n
    /\ UNCHANGED <<notBatch, now>>

NextBatch ==
    \/ Elapse
    \/ \E kind \in SignalKinds, n \in ItemCounts : BatchProcess(kind, n)

\* The batch processor fed with batches while time passes. Nothing else acts
\* on it: NewBatch starts no ticker and nothing reads flushCh.
SpecBatch == Init /\ [][NextBatch]_vars

\* C14: the pending batch is flushed once flushInterval has passed since it
\* started accumulating, so no item stays pending beyond that.
C14_FlushedInTime ==
    bpPending.items # <<>> => now - bpSince <= FlushInterval

\* ======================================================================
\* Observability pipeline: Pipeline (package pipeline) and its receiver
\* ======================================================================

\* pipeline.New(bufSize), and the processors and exporters registered.
BufSize == 2
NProcessors == 2
NExporters == 2

\* Batches the receiver creates in a run.
MaxBatches == 3

\* What a Processor returns: a batch with spans, nil, an empty batch, or an
\* error.
ProcessorResults == {"batch", "nil", "empty", "error"}
ExporterResults == {"ok", "error"}

\* Pipeline.Start: starts the receiver (its server accepts requests) and run.
Start ==
    /\ plRun.pc = "none"
    /\ plAccepting' = TRUE
    /\ plRun' = [pc |-> "select", batch |-> 0]
    /\ UNCHANGED <<notPipe, plCh, plClosed, plCtxDone, plStop, plHandlers, plSent,
                   plProcessed, plTrace, plSeq>>

\* The context handed to Start is cancelled (runServe: a signal arrives).
Cancel ==
    /\ plRun.pc # "none"
    /\ ~plCtxDone
    /\ plCtxDone' = TRUE
    /\ UNCHANGED <<notPipe, plCh, plClosed, plAccepting, plRun, plStop, plHandlers,
                   plSent, plProcessed, plTrace, plSeq>>

\* Pipeline.run at its select: any case that is ready may be taken. It returns
\* when the context is done or the channel is closed and drained, and otherwise
\* receives the oldest batch.
RunSelect ==
    /\ plRun.pc = "select"
    /\ \/ /\ plCtxDone
          /\ plRun' = [pc |-> "exited", batch |-> 0]
          /\ UNCHANGED plCh
       \/ /\ plCh # <<>>
          /\ plRun' = [pc |-> "process", batch |-> Head(plCh)]
          /\ plCh' = Tail(plCh)
       \/ /\ plCh = <<>>
          /\ plClosed
          /\ plRun' = [pc |-> "exited", batch |-> 0]
          /\ UNCHANGED plCh
    /\ UNCHANGED <<notPipe, plClosed, plCtxDone, plAccepting, plStop, plHandlers,
                   plSent, plProcessed, plTrace, plSeq>>

\* What a processor hands on when it is given batch b: the batch it made of b.
Processed(b, i) == Append(b, i)

\* The loop of processBatch over p.processors, from the i-th on, b being the
\* batch so far: each is called with the batch the one before returned, and
\* the loop ends at the first that returns an error, nil or an empty batch.
RECURSIVE ProcessorCalls(_, _, _)
ProcessorCalls(procs, i, b) ==
    IF i > Len(procs) THEN <<>>
    ELSE LET call == [kind |-> "processor", index |-> i, batch |-> b, ret |-> procs[i]]
         IN IF procs[i] # "batch" THEN <<call>>
            ELSE <<call>> \o ProcessorCalls(procs, i + 1, Processed(b, i))

\* processBatch with the exporter loop ending at the first exporter error.
ProcessBatch_StopAtExportError(procs, exps, b) ==
    LET made == ProcessorCalls(procs, 1, b)
        passed == \A i \in DOMAIN procs : procs[i] = "batch"
        final == IF made = <<>> THEN b
                 ELSE Processed(made[Len(made)].batch, made[Len(made)].index)
        upto == IF \E i \in DOMAIN exps : exps[i] = "error"
                THEN CHOOSE i \in DOMAIN exps :
                        exps[i] = "error" /\ \A k \in 1..(i - 1) : exps[k] # "error"
                ELSE Len(exps)
    IN IF passed
       THEN made \o [i \in 1..upto |->
                       [kind |-> "exporter", index |-> i, batch |-> final, ret |-> exps[i]]]
       ELSE made

\* processBatch on batch b, the processors returning procs[1], procs[2], ..
\* and the exporters exps[1], ..: the calls it makes, each with the batch it
\* is given and what it returns. Every exporter is called with the batch the
\* last processor returned, whatever the exporters before it returned.
ProcessBatch(procs, exps, b) ==
    LET made == ProcessorCalls(procs, 1, b)
        passed == \A i \in DOMAIN procs : procs[i] = "batch"
        final == IF made = <<>> THEN b
                 ELSE Processed(made[Len(made)].batch, made[Len(made)].index)
    IN IF passed
       THEN made \o [i \in DOMAIN exps |->
                       [kind |-> "exporter", index |-> i, batch |-> final, ret |-> exps[i]]]
       ELSE made

\* Pipeline.run calls processBatch on the batch it received.
RunProcess(procs, exps) ==
    /\ plRun.pc = "process"
    /\ plProcessed' = plProcessed \cup {plRun.batch}
    /\ plTrace' = ProcessBatch(procs, exps, <<plRun.batch>>)
    /\ plRun' = [pc |-> "select", batch |-> 0]
    /\ UNCHANGED <<notPipe, plCh, plClosed, plCtxDone, plAccepting, plStop,
                   plHandlers, plSent, plSeq>>

\* A request reaches the receiver: handleTraces decodes it, and has a batch to
\* send when the request holds spans.
HandlerArrive(h, spans) ==
    /\ plAccepting
    /\ plHandlers[h].pc = "idle"
    /\ plSeq < MaxBatches
    /\ IF spans > 0
       THEN /\ plSeq' = plSeq + 1
            /\ plHandlers' = [plHandlers EXCEPT ![h] = [pc |-> "send", batch |-> plSeq + 1]]
       ELSE /\ plHandlers' = [plHandlers EXCEPT ![h] = [pc |-> "respond", batch |-> 0]]
            /\ UNCHANGED plSeq
    /\ UNCHANGED <<notPipe, plCh, plClosed, plCtxDone, plAccepting, plRun, plStop,
                   plSent, plProcessed, plTrace>>

\* handleTraces at r.out <- batch: it panics on a closed channel, and otherwise
\* waits until the channel has room.
HandlerSend(h) ==
    /\ plHandlers[h].pc = "send"
    /\ IF plClosed
       THEN /\ plHandlers' = [plHandlers EXCEPT ![h].pc = "panic"]
            /\ UNCHANGED <<plCh, plSent>>
       ELSE /\ Len(plCh) < BufSize
            /\ plCh' = Append(plCh, plHandlers[h].batch)
            /\ plSent' = plSent \cup {plHandlers[h].batch}
            /\ plHandlers' = [plHandlers EXCEPT ![h].pc = "respond"]
    /\ UNCHANGED <<notPipe, plClosed, plCtxDone, plAccepting, plRun, plStop,
                   plProcessed, plTrace, plSeq>>

\* handleTraces writes its response and returns; net/http recovers a handler
\* that panicked.
HandlerReturn(h) ==
    /\ plHandlers[h].pc \in {"respond", "panic"}
    /\ plHandlers' = [plHandlers EXCEPT ![h] = [pc |-> "idle", batch |-> 0]]
    /\ UNCHANGED <<notPipe, plCh, plClosed, plCtxDone, plAccepting, plRun, plStop,
                   plSent, plProcessed, plTrace, plSeq>>

\* Pipeline.Stop is called: it calls the receiver's Stop, whose server.Shutdown
\* stops accepting requests.
StopBegin ==
    /\ plRun.pc # "none"
    /\ plStop.pc = "none"
    /\ plAccepting' = FALSE
    /\ plStop' = [pc |-> "shutdown", sent |-> plSent]
    /\ UNCHANGED <<notPipe, plCh, plClosed, plCtxDone, plRun, plHandlers, plSent,
                   plProcessed, plTrace, plSeq>>

\* server.Shutdown returns: every handler has returned, or its 5 s are over
\* while some handler is still running.
StopShutdownReturn ==
    /\ plStop.pc = "shutdown"
    /\ plStop' = [plStop EXCEPT !.pc = "close"]
    /\ UNCHANGED <<notPipe, plCh, plClosed, plCtxDone, plAccepting, plRun,
                   plHandlers, plSent, plProcessed, plTrace, plSeq>>

\* Pipeline.Stop: close(p.ch)
StopClose ==
    /\ plStop.pc = "close"
    /\ plClosed' = TRUE
    /\ plStop' = [plStop EXCEPT !.pc = "wait"]
    /\ UNCHANGED <<notPipe, plCh, plCtxDone, plAccepting, plRun, plHandlers, plSent,
                   plProcessed, plTrace, plSeq>>

\* Pipeline.Stop: p.wg.Wait() returns once run has returned.
StopWait ==
    /\ plStop.pc = "wait"
    /\ plRun.pc = "exited"
    /\ plStop' = [plStop EXCEPT !.pc = "returned"]
    /\ UNCHANGED <<notPipe, plCh, plClosed, plCtxDone, plAccepting, plRun,
                   plHandlers, plSent, plProcessed, plTrace, plSeq>>

NextPipeline ==
    \/ Start
    \/ Cancel
    \/ RunSelect
    \/ \E procs \in [1..NProcessors -> ProcessorResults],
          exps \in [1..NExporters -> ExporterResults] : RunProcess(procs, exps)
    \/ \E h \in Handlers, spans \in {0, 1} : HandlerArrive(h, spans)
    \/ \E h \in Handlers : HandlerSend(h)
    \/ \E h \in Handlers : HandlerReturn(h)
    \/ StopBegin
    \/ StopShutdownReturn
    \/ StopClose
    \/ StopWait

\* The pipeline between Start and the return of Stop, requests arriving.
SpecPipeline == Init /\ [][NextPipeline]_vars

\* C13: when Stop returns, processBatch has been called on every batch that was
\* sent into the channel before Stop was called.
C13_StopDrains ==
    plStop.pc = "returned" => plStop.sent \subseteq plProcessed

\* C40: no handler of the receiver sends on the pipeline channel once Stop has
\* closed it, and none is left at its send with the channel closed or with the
\* processing goroutine gone and the channel full.
C40_NoSendAfterClose ==
    \A h \in Handlers :
        /\ plHandlers[h].pc # "panic"
        /\ plHandlers[h].pc = "send" =>
              /\ ~plClosed
              /\ ~(plRun.pc = "exited" /\ Len(plCh) = BufSize)

\* The calls of the last processBatch made to processors, and to exporters.
ProcessorsCalled == {i \in DOMAIN plTrace : plTrace[i].kind = "processor"}
ExportersCalled == {i \in DOMAIN plTrace : plTrace[i].kind = "exporter"}

\* C37: processBatch calls the processors in registration order, each with the
\* batch the one before returned; after a processor that returned an error,
\* nil or an empty batch nothing more is called; and when every processor
\* returned a batch, each exporter is called exactly once with the last
\* processor's batch, whatever the other exporters returned.
C37_ProcessBatchOrder ==
    /\ \A i \in ProcessorsCalled :
          /\ plTrace[i].index = i
          /\ i = 1 => Len(plTrace[i].batch) = 1
          /\ i > 1 => /\ plTrace[i - 1].ret = "batch"
                      /\ plTrace[i].batch = Processed(plTrace[i - 1].batch, i - 1)
    /\ (\E i \in ProcessorsCalled : plTrace[i].ret # "batch") => ExportersCalled = {}
    /\ (plTrace # <<>> /\ \A i \in ProcessorsCalled : plTrace[i].ret = "batch") =>
          /\ ProcessorsCalled = 1..NProcessors
          /\ \A e \in 1..NExporters :
                /\ Cardinality({j \in ExportersCalled : plTrace[j].index = e}) = 1
                /\ \A j \in ExportersCalled :
                      plTrace[j].batch = Processed(plTrace[NProcessors].batch, NProcessors)

\* A batch passed every processor, the first exporter returned an error and
\* the second was called all the same.
C37_Witness ==
    /\ ProcessorsCalled = 1..NProcessors
    /\ \E j, k \in ExportersCalled :
          /\ plTrace[j].index = 1 /\ plTrace[j].ret = "error"
          /\ plTrace[k].index = 2

\* ======================================================================
\* CRDTs (package crdt): OR-Set
\* ======================================================================

\* Values of the set, and the Add calls made in a run.
SetValues == {1, 2}
MaxAdds == 2

\* Every ordered pair of different replicas.
ReplicaPairs == {p \in Replicas \X Replicas : p[1] # p[2]}

\* ORSet.Add: its body panics before it touches the set; the deferred Unlock
\* leaves the object usable.
ORSetAdd(s, value, nodeID) == [set |-> s, result |-> "panic"]

\* ORSet.Remove: delete(s.elements, value)
ORSetRemove(s, value) == [set |-> MapDelete(s, value), result |-> "ok"]

\* ORSet.Contains
ORSetContains(s, value) == value \in DOMAIN s /\ Cardinality(s[value]) > 0

\* ORSet.Merge: its body panics.
ORSetMerge(s, other) == [set |-> s, result |-> "panic"]

\* Replica r calls Add(value, r). The tag (node id, local sequence number) the
\* call is to produce is recorded.
OrAdd(r, value) ==
    /\ Cardinality(orHist.tags) < MaxAdds
    /\ LET got == ORSetAdd(orElements[r], value, r)
           tag == [value |-> value, node |-> r,
                   seq |-> Cardinality({t \in orHist.tags : t.node = r}) + 1]
       IN /\ orElements' = [orElements EXCEPT ![r] = got.set]
          /\ orHist' = [tags |-> orHist.tags \cup {tag},
                        observed |-> [orHist.observed EXCEPT ![r] = @ \cup {tag}],
                        cleared |-> orHist.cleared,
                        merged |-> {}]
          /\ crdtLast' = [op |-> "ORSet.Add", replica |-> r, result |-> got.result]
    /\ UNCHANGED <<notCrdt, pnCounter, pnHist, rgaState, rgaHist>>

\* Replica r calls Remove(value): it targets the tags of value r has observed.
OrRemove(r, value) ==
    /\ LET got == ORSetRemove(orElements[r], value)
       IN /\ orElements' = [orElements EXCEPT ![r] = got.set]
          /\ orHist' = [orHist EXCEPT
                           !.cleared = @ \cup {t \in orHist.observed[r] : t.value = value},
                           !.merged = {}]
          /\ crdtLast' = [op |-> "ORSet.Remove", replica |-> r, result |-> got.result]
    /\ UNCHANGED <<notCrdt, pnCounter, pnHist, rgaState, rgaHist>>

\* Replica r calls Merge with the set of replica o.
OrMerge(r, o) ==
    /\ r # o
    /\ LET got == ORSetMerge(orElements[r], orElements[o])
       IN /\ orElements' = [orElements EXCEPT ![r] = got.set]
          /\ orHist' = [orHist EXCEPT
                           !.observed[r] = @ \cup orHist.observed[o],
                           !.merged = @ \cup {<<r, o>>}]
          /\ crdtLast' = [op |-> "ORSet.Merge", replica |-> r, result |-> got.result]
    /\ UNCHANGED <<notCrdt, pnCounter, pnHist, rgaState, rgaHist>>

NextORSet ==
    \/ \E r \in Replicas, value \in SetValues : OrAdd(r, value)
    \/ \E r \in Replicas, value \in SetValues : OrRemove(r, value)
    \/ \E r \in Replicas, o \in Replicas : OrMerge(r, o)

\* Replicas of an OR-Set adding, removing and merging in any order.
SpecORSet == Init /\ [][NextORSet]_vars

\* C18: once every replica has merged with every other, each replica contains
\* value exactly when some Add of value produced a tag no Remove had observed.
C18_AddWins ==
    orHist.merged = ReplicaPairs =>
        \A r \in Replicas, value \in SetValues :
            ORSetContains(orElements[r], value)
                <=> \E t \in orHist.tags \ orHist.cleared : t.value = value

\* ======================================================================
\* CRDTs (package crdt): PN-Counter
\* ======================================================================

\* The deltas handed to Increment and Decrement, and the calls made in a run.
Deltas == {0, 1, 2}
MaxCounterCalls == 3

\* m[k] of a Go map of integers: 0 for a missing key.
MapGet0(m, k) == IF k \in DOMAIN m THEN m[k] ELSE 0

\* PNCounter.Increment: c.positive[nodeID] += delta
PNCounterIncrement(c, nodeID, delta) ==
    [counter |-> [c EXCEPT !.positive = MapPut(@, nodeID, MapGet0(@, nodeID) + delta)],
     result |-> "ok"]

\* PNCounter.Decrement: c.negative[nodeID] += delta
PNCounterDecrement(c, nodeID, delta) ==
    [counter |-> [c EXCEPT !.negative = MapPut(@, nodeID, MapGet0(@, nodeID) + delta)],
     result |-> "ok"]

\* PNCounter.Value: its body panics.
PNCounterValue(c) == [value |-> 0, result |-> "panic"]

\* PNCounter.Merge: its body panics.
PNCounterMerge(c, other) == [counter |-> c, result |-> "panic"]

\* Replica r calls Increment(r, delta).
PnIncrement(r, delta) ==
    /\ pnHist.calls < MaxCounterCalls
    /\ LET got == PNCounterIncrement(pnCounter[r], r, delta)
       IN /\ pnCounter' = [pnCounter EXCEPT ![r] = got.counter]
          /\ crdtLast' = [op |-> "PNCounter.Increment", replica |-> r,
                          result |-> got.result]
    /\ pnHist' = [incs |-> pnHist.incs + delta, decs |-> pnHist.decs,
                  calls |-> pnHist.calls + 1, merged |-> {}]
    /\ UNCHANGED <<notCrdt, orElements, orHist, rgaState, rgaHist>>

\* Replica r calls Decrement(r, delta).
PnDecrement(r, delta) ==
    /\ pnHist.calls < MaxCounterCalls
    /\ LET got == PNCounterDecrement(pnCounter[r], r, delta)
       IN /\ pnCounter' = [pnCounter EXCEPT ![r] = got.counter]
          /\ crdtLast' = [op |-> "PNCounter.Decrement", replica |-> r,
                          result |-> got.result]
    /\ pnHist' = [incs |-> pnHist.incs, decs |-> pnHist.decs + delta,
                  calls |-> pnHist.calls + 1, merged |-> {}]
    /\ UNCHANGED <<notCrdt, orElements, orHist, rgaState, rgaHist>>

\* Replica r calls Merge with the counter of replica o.
PnMerge(r, o) ==
    /\ r # o
    /\ LET got == PNCounterMerge(pnCounter[r], pnCounter[o])
       IN /\ pnCounter' = [pnCounter EXCEPT ![r] = got.counter]
          /\ crdtLast' = [op |-> "PNCounter.Merge", replica |-> r,
                          result |-> got.result]
    /\ pnHist' = [pnHist EXCEPT !.merged = @ \cup {<<r, o>>}]
    /\ UNCHANGED <<notCrdt, orElements, orHist, rgaState, rgaHist>>

\* Replica r calls Value.
PnValue(r) ==
    /\ crdtLast' = [op |-> "PNCounter.Value", replica |-> r,
                    result |-> PNCounterValue(pnCounter[r]).result]
    /\ UNCHANGED <<notCrdt, orElements, orHist, pnCounter, pnHist, rgaState, rgaHist>>

NextPNCounter ==
    \/ \E r \in Replicas, delta \in Deltas : PnIncrement(r, delta)
    \/ \E r \in Replicas, delta \in Deltas : PnDecrement(r, delta)
    \/ \E r \in Replicas, o \in Replicas : PnMerge(r, o)
    \/ \E r \in Replicas : PnValue(r)

\* Replicas of a PN-Counter counting and merging in any order.
SpecPNCounter == Init /\ [][NextPNCounter]_vars

\* C19: once every replica's state has been merged into every other, Value on
\* each replica is the total of all increments minus the total of all decrements.
C19_ValueConverges ==
    pnHist.merged = ReplicaPairs =>
        \A r \in Replicas :
            /\ PNCounterValue(pnCounter[r]).result = "ok"
            /\ PNCounterValue(pnCounter[r]).value = pnHist.incs - pnHist.decs

\* ======================================================================
\* CRDTs (package crdt): RGA
\* ======================================================================

\* RGANodeID{}: the anchor of an insert at the beginning.
ZeroID == [seq |-> 0, node |-> 0]

\* Text characters, and the remote operations handed to Apply: RGANode values,
\* an insert of each replica at the beginning, an insert after the first of
\* them and the tombstone of the first.
RgaChars == {"a", "b"}
RgaOps ==
    {[id |-> [seq |-> 1, node |-> 1], insertAfter |-> ZeroID, char |-> "a",
      deleted |-> FALSE],
     [id |-> [seq |-> 1, node |-> 2], insertAfter |-> ZeroID, char |-> "b",
      deleted |-> FALSE],
     [id |-> [seq |-> 2, node |-> 2], insertAfter |-> [seq |-> 1, node |-> 1],
      char |-> "b", deleted |-> FALSE],
     [id |-> [seq |-> 1, node |-> 1], insertAfter |-> ZeroID, char |-> "a",
      deleted |-> TRUE]}

\* The ids a replica can anchor an insert on or delete.
RgaIds == {ZeroID} \cup {op.id : op \in RgaOps}

\* RGA.Insert: its body panics.
RGAInsert(rga, afterID, char, nodeID) == [rga |-> rga, result |-> "panic"]

\* RGA.Delete: its body panics.
RGADelete(rga, id) == [rga |-> rga, result |-> "panic"]

\* RGA.Text: its body panics.
RGAText(rga) == [text |-> <<>>, result |-> "panic"]

\* RGA.Apply: returns the error "not yet implemented" and ignores op.
RGAApply(rga, op) == [rga |-> rga, result |-> "error"]

\* An operation may be delivered once its anchor, or the node it deletes, was.
Deliverable(handed, op) ==
    IF op.deleted
    THEN \E o \in handed : o.id = op.id /\ ~o.deleted
    ELSE op.insertAfter = ZeroID \/ \E o \in handed : o.id = op.insertAfter /\ ~o.deleted

\* Replica r calls Insert(afterID, char, r).
RgaInsert(r, afterID, char) ==
    /\ LET got == RGAInsert(rgaState[r], afterID, char, r)
       IN /\ rgaState' = [rgaState EXCEPT ![r] = got.rga]
          /\ crdtLast' = [op |-> "RGA.Insert", replica |-> r, result |-> got.result]
    /\ UNCHANGED <<notCrdt, orElements, orHist, pnCounter, pnHist, rgaHist>>

\* Replica r calls Delete(id).
RgaDelete(r, id) ==
    /\ LET got == RGADelete(rgaState[r], id)
       IN /\ rgaState' = [rgaState EXCEPT ![r] = got.rga]
          /\ crdtLast' = [op |-> "RGA.Delete", replica |-> r, result |-> got.result]
    /\ UNCHANGED <<notCrdt, orElements, orHist, pnCounter, pnHist, rgaHist>>

\* Replica r is handed a remote operation: Apply(op).
RgaApply(r, op) ==
    /\ Deliverable(rgaHist[r], op)
    /\ LET got == RGAApply(rgaState[r], op)
       IN /\ rgaState' = [rgaState EXCEPT ![r] = got.rga]
          /\ crdtLast' = [op |-> "RGA.Apply", replica |-> r, result |-> got.result]
    /\ rgaHist' = [rgaHist EXCEPT ![r] = @ \cup {op}]
    /\ UNCHANGED <<notCrdt, orElements, orHist, pnCounter, pnHist>>

\* Replica r calls Text.
RgaText(r) ==
    /\ crdtLast' = [op |-> "RGA.Text", replica |-> r,
                    result |-> RGAText(rgaState[r]).result]
    /\ UNCHANGED <<notCrdt, orElements, orHist, pnCounter, pnHist, rgaState, rgaHist>>

NextRGA ==
    \/ \E r \in Replicas, afterID \in RgaIds, char \in RgaChars : RgaInsert(r, afterID, char)
    \/ \E r \in Replicas, id \in RgaIds : RgaDelete(r, id)
    \/ \E r \in Replicas, op \in RgaOps : RgaApply(r, op)
    \/ \E r \in Replicas : RgaText(r)

\* Replicas of an RGA document editing and applying remote operations.
SpecRGA == Init /\ [][NextRGA]_vars

\* C20: two replicas that were handed the same operations, each anchor before
\* the inserts after it, return the same Text(), and every operation handed to
\* a replica was applied.
C20_SameText ==
    \A r, o \in Replicas :
        (r # o /\ rgaHist[r] = rgaHist[o] /\ rgaHist[r] # {}) =>
            /\ crdtLast.op = "RGA.Apply" => crdtLast.result = "ok"
            /\ RGAText(rgaState[r]).result = "ok"
            /\ RGAText(rgaState[r]) = RGAText(rgaState[o])

\* ======================================================================
\* CRDTs (package crdt): vector clock
\* ======================================================================

\* Highest counter a clock reaches in a run.
MaxClock == 2

\* VClock.Increment: a copy with nodeID's counter incremented.
VClockIncrement(v, nodeID) == MapPut(v, nodeID, MapGet0(v, nodeID) + 1)

\* VClock.HappensBefore: its body panics.
VClockHappensBefore(v, other) == [holds |-> FALSE, result |-> "panic"]

\* VClock.Concurrent: !v.HappensBefore(other) && !other.HappensBefore(v); the
\* first call panics.
VClockConcurrent(v, other) ==
    LET first == VClockHappensBefore(v, other)
        second == VClockHappensBefore(other, v)
    IN IF first.result # "ok" THEN [holds |-> FALSE, result |-> first.result]
       ELSE IF first.holds THEN [holds |-> FALSE, result |-> "ok"]
       ELSE IF second.result # "ok" THEN [holds |-> FALSE, result |-> second.result]
       ELSE [holds |-> ~second.holds, result |-> "ok"]

\* VClock.Merge: its body panics.
VClockMerge(v, other) == [clock |-> <<>>, result |-> "panic"]

\* Node r advances its clock for node id nodeID.
VcIncrement(r, nodeID) ==
    /\ MapGet0(vcClocks[r], nodeID) < MaxClock
    /\ vcClocks' = [vcClocks EXCEPT ![r] = VClockIncrement(@, nodeID)]
    /\ vcLast' = [op |-> "Increment", a |-> vcClocks[r], b |-> <<>>, holds |-> FALSE,
                  clock |-> VClockIncrement(vcClocks[r], nodeID), result |-> "ok"]
    /\ UNCHANGED notVClock

\* The clock of r is compared with the clock of o.
VcHappensBefore(r, o) ==
    /\ LET got == VClockHappensBefore(vcClocks[r], vcClocks[o])
       IN vcLast' = [op |-> "HappensBefore", a |-> vcClocks[r], b |-> vcClocks[o],
                     holds |-> got.holds, clock |-> <<>>, result |-> got.result]
    /\ UNCHANGED <<notVClock, vcClocks>>

VcConcurrent(r, o) ==
    /\ LET got == VClockConcurrent(vcClocks[r], vcClocks[o])
       IN vcLast' = [op |-> "Concurrent", a |-> vcClocks[r], b |-> vcClocks[o],
                     holds |-> got.holds, clock |-> <<>>, result |-> got.result]
    /\ UNCHANGED <<notVClock, vcClocks>>

\* Node r takes the merge of its clock with the clock of o as its clock.
VcMerge(r, o) ==
    /\ LET got == VClockMerge(vcClocks[r], vcClocks[o])
       IN /\ vcLast' = [op |-> "Merge", a |-> vcClocks[r], b |-> vcClocks[o],
                        holds |-> FALSE, clock |-> got.clock, result |-> got.result]
          /\ vcClocks' = IF got.result = "ok"
                         THEN [vcClocks EXCEPT ![r] = got.clock] ELSE vcClocks
    /\ UNCHANGED notVClock

NextVClock ==
    \/ \E r \in Replicas, nodeID \in Replicas : VcIncrement(r, nodeID)
    \/ \E r \in Replicas, o \in Replicas : VcHappensBefore(r, o)
    \/ \E r \in Replicas, o \in Replicas : VcConcurrent(r, o)
    \/ \E r \in Replicas, o \in Replicas : VcMerge(r, o)

\* Two nodes advancing, comparing and merging their vector clocks.
SpecVClock == Init /\ [][NextVClock]_vars

\* a happens before b: a[n] <= b[n] for every node, a[n] < b[n] for some.
Precedes(a, b) ==
    /\ \A n \in Replicas : MapGet0(a, n) <= MapGet0(b, n)
    /\ \E n \in Replicas : MapGet0(a, n) < MapGet0(b, n)

\* C21: HappensBefore, Concurrent and Merge return what their definitions say.
C21_ClockRelations ==
    /\ vcLast.op = "HappensBefore" =>
          vcLast.result = "ok" /\ (vcLast.holds <=> Precedes(vcLast.a, vcLast.b))
    /\ vcLast.op = "Concurrent" =>
          /\ vcLast.result = "ok"
          /\ vcLast.holds <=> (~Precedes(vcLast.a, vcLast.b) /\ ~Precedes(vcLast.b, vcLast.a))
    /\ vcLast.op = "Merge" =>
          /\ vcLast.result = "ok"
          /\ \A n \in Replicas :
                MapGet0(vcLast.clock, n) =
                    IF MapGet0(vcLast.a, n) >= MapGet0(vcLast.b, n)
                    THEN MapGet0(vcLast.a, n) ELSE MapGet0(vcLast.b, n)

\* ======================================================================
\* Write-ahead log with crash recovery (challenge 03)
\* ======================================================================

WalKeys == {"a", "f"}
WalValues == {"alpha", "zeta"}

\* LSN arguments tried for Apply.
WalLSNs == 1..2

\* Calls made on the WAL in a run.
MaxWalCalls == 4

\* One entry of the call history: the method, its arguments, how it ended,
\* what it returned and the store it left.
WalCall(op, key, value, lsn, got) ==
    [op |-> op, key |-> key, value |-> value, lsn |-> lsn, result |-> got.result,
     out |-> got.out, found |-> got.found, store |-> got.store]

\* What every method of the WAL does: panic("implement me"). The store is
\* left as it was.
ImplementMe(s) == [result |-> "panic", out |-> 0, found |-> FALSE, store |-> s]

\* Whether the run may make another call.
WalMore == Len(walHist) < MaxWalCalls

\* A call is made and ends with got.
WalStep(op, key, value, lsn, got) ==
    /\ walStore' = got.store
    /\ walHist' = Append(walHist, WalCall(op, key, value, lsn, got))
    /\ UNCHANGED notWal

NewWAL == WalMore /\ WalStep("NewWAL", "", "", 0, ImplementMe(walStore))

WALAppend(key, value) ==
    WalMore /\ WalStep("Append", key, value, 0, ImplementMe(walStore))

WALApply(lsn) == WalMore /\ WalStep("Apply", "", "", lsn, ImplementMe(walStore))

WALCheckpoint == WalMore /\ WalStep("Checkpoint", "", "", 0, ImplementMe(walStore))

WALRecover == WalMore /\ WalStep("Recover", "", "", 0, ImplementMe(walStore))

WALGet(key) == WalMore /\ WalStep("Get", key, "", 0, ImplementMe(walStore))

WALClose == WalMore /\ WalStep("Close", "", "", 0, ImplementMe(walStore))

NextWal ==
    \/ NewWAL
    \/ \E key \in WalKeys, value \in WalValues : WALAppend(key, value)
    \/ \E lsn \in WalLSNs : WALApply(lsn)
    \/ WALCheckpoint
    \/ WALRecover
    \/ \E key \in WalKeys : WALGet(key)
    \/ WALClose

\* Any sequence of calls on the write-ahead log.
SpecWal == Init /\ [][NextWal]_vars

\* The calls of h that returned without error.
Succeeded(h, op) == {i \in 1..Len(h) : h[i].op = op /\ h[i].result = "ok"}

\* The position of the last successful Checkpoint before call i (0: none).
LastCheckpoint(h, i) ==
    LET cps == {j \in Succeeded(h, "Checkpoint") : j < i}
    IN IF cps = {} THEN 0 ELSE CHOOSE j \in cps : \A k \in cps : k <= j

\* The map that replaying the DATA records appended between the last
\* checkpoint and call i gives: the last value appended for each key.
Replayed(h, i) ==
    LET data == {j \in Succeeded(h, "Append") : LastCheckpoint(h, i) < j /\ j < i}
        keys == {h[j].key : j \in data}
        lastOf(k) == CHOOSE j \in data : h[j].key = k /\
                         \A m \in data : h[m].key = k => m <= j
    IN [k \in keys |-> h[lastOf(k)].value]

\* C22: Recover returns without error or panic, and leaves the map that
\* replaying the intact DATA records after the last checkpoint gives.
C22_RecoverReplays ==
    \A i \in 1..Len(walHist) :
        walHist[i].op = "Recover" =>
            /\ walHist[i].result = "ok"
            /\ walHist[i].store = Replayed(walHist, i)

\* The store before call i.
StoreBefore(h, i) == IF i = 1 THEN <<>> ELSE h[i - 1].store

\* C23: a Checkpoint, a Close, a reopening and a Recover in a row all return
\* without error, and the store after the Recover is the store that was
\* applied before the Checkpoint.
C23_CheckpointPreserves ==
    \A i \in 1..Len(walHist) :
        (/\ i + 3 <= Len(walHist)
         /\ walHist[i].op = "Checkpoint"
         /\ walHist[i + 1].op = "Close"
         /\ walHist[i + 2].op = "NewWAL"
         /\ walHist[i + 3].op = "Recover")
        => /\ \A j \in i..(i + 3) : walHist[j].result = "ok"
           /\ walHist[i + 3].store = StoreBefore(walHist, i)

\* C24: an Append returns an LSN or an I/O error, and the LSN of a successful
\* Append is one more than the LSN of the successful Append before it.
C24_LsnsConsecutive ==
    \A i \in 1..Len(walHist) :
        walHist[i].op = "Append" =>
            /\ walHist[i].result \in {"ok", "io-error"}
            /\ walHist[i].result = "ok" =>
                  walHist[i].out = Cardinality({j \in Succeeded(walHist, "Append") : j <= i})

\* ======================================================================
\* Adaptive rate limiter (challenge 01)
\* ======================================================================

Tenants == {"tenant-A", "tenant-0"}

\* The rate and burst main builds its limiter with.
LimiterRate == 100
LimiterBurst == 10

\* Calls made on the limiter in a run.
MaxLimiterCalls == 3

\* A TenantStats value; AdaptiveFactor is held in tenths.
TenantStats(tokens, factor) ==
    [Allowed |-> 0, Rejected |-> 0, Tokens |-> tokens, AdaptiveFactor |-> factor]

\* What every function of the limiter does: panic("implement me").
LimiterImplementMe == [result |-> "panic", allowed |-> FALSE, stats |-> TenantStats(0, 0)]

LimiterMore == Len(rlHist) < MaxLimiterCalls

\* A call is made and ends with got.
LimiterStep(op, tenantID, wasError, got) ==
    /\ rlHist' = Append(rlHist, [op |-> op, tenant |-> tenantID, wasError |-> wasError,
                                 result |-> got.result, allowed |-> got.allowed,
                                 stats |-> got.stats])
    /\ UNCHANGED notLimiter

\* No limiter is returned: rate and burst are not stored.
NewAdaptiveRateLimiter(rate, burst) ==
    /\ LimiterMore
    /\ LimiterStep("New", "", FALSE, LimiterImplementMe)
    /\ UNCHANGED rlLimiter

\* A goroutine calls Allow for a tenant.
Allow(tenantID, wasError) ==
    /\ LimiterMore
    /\ LimiterStep("Allow", tenantID, wasError, LimiterImplementMe)
    /\ UNCHANGED rlLimiter

AdaptiveRateLimiterStats(tenantID) ==
    /\ LimiterMore
    /\ LimiterStep("Stats", tenantID, FALSE, LimiterImplementMe)
    /\ UNCHANGED rlLimiter

NextLimiter ==
    \/ NewAdaptiveRateLimiter(LimiterRate, LimiterBurst)
    \/ \E tenantID \in Tenants, wasError \in BOOLEAN : Allow(tenantID, wasError)
    \/ \E tenantID \in Tenants : AdaptiveRateLimiterStats(tenantID)

\* Any sequence of calls on the rate limiter.
SpecLimiter == Init /\ [][NextLimiter]_vars

\* C25: Allow returns, and the Stats of a tenant taken after Allow calls show
\* an adaptive factor in [0.1, 1.0] and between 0 and burst tokens.
C25_FactorAndTokensInRange ==
    \A i \in 1..Len(rlHist) :
        /\ rlHist[i].op = "Allow" => rlHist[i].result = "ok"
        /\ (rlHist[i].op = "Stats" /\ \E j \in 1..(i - 1) : rlHist[j].op = "Allow") =>
              /\ rlHist[i].result = "ok"
              /\ rlHist[i].stats.AdaptiveFactor \in 1..10
              /\ rlHist[i].stats.Tokens \in 0..LimiterBurst

\* ======================================================================
\* Circuit breaker (challenge 05)
\* ======================================================================

\* BreakerConfig: a window of 2 calls stands for main's 10; the threshold is
\* in percent; a Sleep is longer than ResetTimeout, as in main.
WindowSize == 2
FailureThreshold == 60
ProbeCount == 3

\* The functions main runs through the breaker.
Fns == {"failFn", "successFn"}

\* Calls and sleeps in a run.
MaxBreakerCalls == 4

BreakerCall(op, fn, got) ==
    [op |-> op, fn |-> fn, result |-> got.result, err |-> got.err, ran |-> got.ran,
     state |-> got.state]

\* What every function of the breaker does: panic("implement me"), before fn
\* is run and before any state is read or written.
BreakerImplementMe == [result |-> "panic", err |-> "", ran |-> FALSE, state |-> StateClosed]

BreakerMore == Len(cbHist) < MaxBreakerCalls

BreakerStep(op, fn, got) ==
    /\ cbHist' = Append(cbHist, BreakerCall(op, fn, got))
    /\ UNCHANGED <<notBreaker, cbState>>

NewCircuitBreaker == BreakerMore /\ BreakerStep("New", "", BreakerImplementMe)

Execute(fn) == BreakerMore /\ BreakerStep("Execute", fn, BreakerImplementMe)

State == BreakerMore /\ BreakerStep("State", "", BreakerImplementMe)

BreakerStats == BreakerMore /\ BreakerStep("Stats", "", BreakerImplementMe)

\* main sleeps for longer than ResetTimeout.
BreakerSleep ==
    /\ BreakerMore
    /\ BreakerStep("Sleep", "", [result |-> "ok", err |-> "", ran |-> FALSE,
                                 state |-> cbState])

NextBreaker ==
    \/ NewCircuitBreaker
    \/ \E fn \in Fns : Execute(fn)
    \/ State
    \/ BreakerStats
    \/ BreakerSleep

\* Any sequence of calls on the circuit breaker.
SpecBreaker == Init /\ [][NextBreaker]_vars

\* The breaker as documented, before any call.
DocInit == [state |-> StateClosed, window |-> <<>>, elapsed |-> FALSE,
            sent |-> 0, succeeded |-> 0]

\* The last n elements of s.
LastN(s, n) == IF Len(s) <= n THEN s ELSE SubSeq(s, Len(s) - n + 1, Len(s))

\* The documented breaker after an observer call finds the reset timeout over.
DocObserve(d) ==
    IF d.state = StateOpen /\ d.elapsed
    THEN [d EXCEPT !.state = StateHalfOpen, !.elapsed = FALSE, !.sent = 0,
                   !.succeeded = 0]
    ELSE d

\* Whether the documented breaker in state d lets a call through.
DocAdmits(d) ==
    \/ d.state = StateClosed
    \/ d.state = StateHalfOpen /\ d.sent < ProbeCount

\* The documented breaker after running fn in state d (d admits the call).
DocRun(d, fn) ==
    IF d.state = StateClosed
    THEN LET w == LastN(Append(d.window, fn = "failFn"), WindowSize)
             failures == Cardinality({i \in 1..Len(w) : w[i]})
         IN IF Len(w) = WindowSize /\ failures * 100 > FailureThreshold * WindowSize
            THEN [d EXCEPT !.state = StateOpen, !.window = <<>>, !.elapsed = FALSE]
            ELSE [d EXCEPT !.window = w]
    ELSE IF fn = "failFn"
    THEN [d EXCEPT !.state = StateOpen, !.elapsed = FALSE]
    ELSE IF (d.succeeded + 1) * 2 >= ProbeCount
    THEN [d EXCEPT !.state = StateClosed, !.window = <<>>]
    ELSE [d EXCEPT !.sent = @ + 1, !.succeeded = @ + 1]

\* The documented breaker after one more call c.
DocStep(d, c) ==
    IF c.op = "New" THEN DocInit
    ELSE IF c.op = "Sleep" THEN [d EXCEPT !.elapsed = (d.state = StateOpen)]
    ELSE IF c.op = "State" THEN DocObserve(d)
    ELSE IF c.op = "Execute"
    THEN IF DocAdmits(DocObserve(d)) THEN DocRun(DocObserve(d), c.fn) ELSE DocObserve(d)
    ELSE d

RECURSIVE Documented(_, _)
\* The documented breaker after the first n calls of h.
Documented(h, n) == IF n = 0 THEN DocInit ELSE DocStep(Documented(h, n - 1), h[n])

\* C26: while the documented breaker is CLOSED an Execute runs fn and returns
\* its result; once the window is full with a failure ratio above the
\* threshold, the next State or Execute observes OPEN.
C26_TripsWhenWindowFails ==
    \A i \in 1..Len(cbHist) :
        LET before == Documented(cbHist, i - 1)
            c == cbHist[i]
        IN /\ (c.op = "Execute" /\ before.state = StateClosed) =>
                 /\ c.result = "ok" /\ c.ran
                 /\ c.err = IF c.fn = "failFn" THEN "downstream error" ELSE "nil"
           /\ (c.op = "State" /\ before.state = StateOpen /\ ~before.elapsed) =>
                 c.result = "ok" /\ c.state = StateOpen
           /\ (c.op = "State" /\ before.state = StateClosed) =>
                 c.result = "ok" /\ c.state = StateClosed

\* C27: an Execute while OPEN before the timeout is rejected with
\* ErrCircuitOpen without running fn; after the timeout the first observer
\* finds HALF_OPEN; HALF_OPEN lets at most ProbeCount calls through, closes at
\* ceil(ProbeCount / 2) successes and reopens on a failure.
C27_RecoversThroughProbes ==
    \A i \in 1..Len(cbHist) :
        LET before == Documented(cbHist, i - 1)
            after == Documented(cbHist, i)
            c == cbHist[i]
        IN /\ (c.op = "Execute" /\ before.state = StateOpen /\ ~before.elapsed) =>
                 c.result = "ok" /\ ~c.ran /\ c.err = "ErrCircuitOpen"
           /\ (c.op = "State" /\ before.state = StateOpen /\ before.elapsed) =>
                 c.result = "ok" /\ c.state = StateHalfOpen
           /\ (c.op = "Execute" /\ DocObserve(before).state = StateHalfOpen) =>
                 /\ c.result = "ok"
                 /\ c.ran <=> DocAdmits(DocObserve(before))
           /\ (c.op = "State" /\ before.state = StateHalfOpen) =>
                 c.result = "ok" /\ c.state = after.state

\* ======================================================================
\* SWIM gossip failure detector (challenge 09)
\* ======================================================================

\* NodeState values.
StateAlive == 0
StateSuspect == 1
StateDead == 2

\* The number of nodes NewCluster is asked for.
ClusterSize == 3

\* The nodes Kill and Partition are called on.
KillTargets == {1, 2}
PartitionPairs == {<<1, 2>>, <<2, 3>>}

\* Calls made on the cluster in a run.
MaxClusterCalls == 4

ClusterCall(op, a, b, got) ==
    [op |-> op, a |-> a, b |-> b, result |-> got.result, converged |-> got.converged,
     view |-> got.view]

\* What every function of the cluster does: panic("implement me"). No node
\* is created, started or stopped and no message is sent.
ClusterImplementMe == [result |-> "panic", converged |-> FALSE, view |-> <<>>]

ClusterMore == Len(swHist) < MaxClusterCalls

ClusterStep(op, a, b, got) ==
    /\ swHist' = Append(swHist, ClusterCall(op, a, b, got))
    /\ UNCHANGED <<notSwim, swMembers>>

NewCluster(n) == ClusterMore /\ ClusterStep("NewCluster", n, 0, ClusterImplementMe)

ClusterStart == ClusterMore /\ ClusterStep("Start", 0, 0, ClusterImplementMe)

Kill(nodeID) == ClusterMore /\ ClusterStep("Kill", nodeID, 0, ClusterImplementMe)

Partition(nodeA, nodeB) ==
    ClusterMore /\ ClusterStep("Partition", nodeA, nodeB, ClusterImplementMe)

WaitConverged == ClusterMore /\ ClusterStep("WaitConverged", 0, 0, ClusterImplementMe)

MembershipState == ClusterMore /\ ClusterStep("MembershipState", 0, 0, ClusterImplementMe)

NextSwim ==
    \/ NewCluster(ClusterSize)
    \/ ClusterStart
    \/ \E nodeID \in KillTargets : Kill(nodeID)
    \/ \E p \in PartitionPairs : Partition(p[1], p[2])
    \/ WaitConverged
    \/ MembershipState

\* Any sequence of calls on the cluster.
SpecSwim == Init /\ [][NextSwim]_vars

\* The nodes killed by the calls before call i.
KilledBefore(h, i) == {h[j].a : j \in {k \in 1..(i - 1) : h[k].op = "Kill"}}

\* C28: Kill returns; a WaitConverged after a Kill returns true; and the
\* membership reported after that has the killed nodes Dead and no other.
C28_KilledNodeReportedDead ==
    \A i \in 1..Len(swHist) :
        LET c == swHist[i]
            waited == \E j \in 1..(i - 1) : swHist[j].op = "WaitConverged"
        IN /\ c.op = "Kill" => c.result = "ok"
           /\ (c.op = "WaitConverged" /\ KilledBefore(swHist, i) # {}) =>
                 c.result = "ok" /\ c.converged
           /\ (c.op = "MembershipState" /\ KilledBefore(swHist, i) # {} /\ waited) =>
                 /\ c.result = "ok"
                 /\ \A n \in DOMAIN c.view :
                       c.view[n] = StateDead <=> n \in KilledBefore(swHist, i)

firstDeltaBits == 14

\* Timestamps and values appended in a run.
MaxTs == 2
Timestamps == 0..MaxTs
FloatValues == {"0.0", "1.0"}

\* Samples appended in a run.
MaxSamples == 3

\* The batches handed to DB.Write: one or two samples.
SampleValues == [Ts : Timestamps, Val : FloatValues]
WriteBatches == {<<a>> : a \in SampleValues} \cup {<<a, b>> : a, b \in SampleValues}

\* math.Float64bits: the one bits of the IEEE-754 form (1.0 is 0x3FF0000000000000).
Float64bits(v) == IF v = "1.0" THEN 52..61 ELSE {}

\* The bits written lowest first.
BitsOfSet_LowFirst(s, n) == [i \in 1..n |-> IF (i - 1) \in s THEN 1 ELSE 0]

\* The n low bits of a uint64 given by its one bits, highest first.
BitsOfSet(s, n) == [i \in 1..n |-> IF (n - i) \in s THEN 1 ELSE 0]

\* The one bits of uint64(x), for x from -(2^14) up to 2^30: a negative x has
\* every bit above the 14th set.
Uint64(x) ==
    IF x >= 0 THEN {i \in 0..29 : (x \div (2 ^ i)) % 2 = 1}
    ELSE {i \in 0..13 : ((x % (2 ^ 14)) \div (2 ^ i)) % 2 = 1} \cup (14..63)

\* Chunk.writeBit
WriteBit(c, b) == [c EXCEPT !.buf = Append(@, b), !.bitPos = @ + 1]

\* Chunk.writeBits
WriteBits(c, v, n) == [c EXCEPT !.buf = @ \o BitsOfSet(v, n), !.bitPos = @ + n]

\* Chunk.appendValue: a value equal to the last one is one 0 bit; any other
\* writes a 1 bit and panics.
AppendValue(c, v) ==
    LET vBits == Float64bits(v)
        xor == (c.vLast \ vBits) \cup (vBits \ c.vLast)
        c1 == [c EXCEPT !.vLast = vBits]
    IN IF xor = {} THEN [chunk |-> WriteBit(c1, 0), result |-> "ok"]
       ELSE [chunk |-> WriteBit(c1, 1), result |-> "panic"]

\* Chunk.encodeTimestampDoD: panics for every delta of delta.
EncodeTimestampDoD(c, dod) == [chunk |-> c, result |-> "panic"]

\* Chunk.appendFirst
AppendFirst(c, ts, v) ==
    [chunk |-> [WriteBits(WriteBits(c, Uint64(ts), 64), Float64bits(v), 64)
                   EXCEPT !.tLast = ts, !.vLast = Float64bits(v)],
     result |-> "ok"]

\* Chunk.appendSecond
AppendSecond(c, ts, v) ==
    LET delta == ts - c.tLast
        r == AppendValue(WriteBits(c, Uint64(delta), firstDeltaBits), v)
    IN IF r.result # "ok" THEN r
       ELSE [chunk |-> [r.chunk EXCEPT !.tDeltaLast = delta, !.tLast = ts],
             result |-> "ok"]

\* Chunk.appendDelta
AppendDelta(c, ts, v) ==
    LET delta == ts - c.tLast
        r == EncodeTimestampDoD(c, delta - c.tDeltaLast)
    IN IF r.result # "ok" THEN r
       ELSE AppendValue([r.chunk EXCEPT !.tDeltaLast = delta, !.tLast = ts], v)

\* Chunk.Append: numSamples is incremented only when the append returns.
ChunkAppend(c, ts, v) ==
    LET r == IF c.numSamples = 0 THEN AppendFirst(c, ts, v)
             ELSE IF c.numSamples = 1 THEN AppendSecond(c, ts, v)
             ELSE AppendDelta(c, ts, v)
    IN IF r.result # "ok" THEN r
       ELSE [chunk |-> [r.chunk EXCEPT !.numSamples = @ + 1], result |-> "ok"]

\* Chunk.NewIterator
NewIterator == [bitPos |-> 0, idx |-> 0, Err |-> "nil"]

\* Iterator.Next: false when exhausted; otherwise false with Err set.
IteratorNext(it, c) ==
    IF it.idx >= c.numSamples THEN [it |-> it, more |-> FALSE]
    ELSE [it |-> [it EXCEPT !.Err = "not yet implemented"], more |-> FALSE]

\* Series.Append: the head chunk's Append.
GcAppend(ts, v) ==
    /\ Len(gcAppended) < MaxSamples
    /\ LET r == ChunkAppend(gcChunk, ts, v)
       IN /\ gcChunk' = r.chunk
          /\ gcLast' = [op |-> "Append", result |-> r.result, samples |-> <<>>,
                        err |-> "nil"]
    /\ gcAppended' = Append(gcAppended, [Ts |-> ts, Val |-> v])
    /\ UNCHANGED notChunk

\* sort.Slice by Ts, for the batches of one or two samples written here.
SortSamples(samples) ==
    IF Len(samples) = 2 /\ samples[2].Ts < samples[1].Ts
    THEN <<samples[2], samples[1]>> ELSE samples

RECURSIVE AppendAll(_, _, _)
\* The loop of DB.Write from sample i on: a panic of Append ends it.
AppendAll(c, samples, i) ==
    IF i > Len(samples) THEN [chunk |-> c, result |-> "ok", tried |-> Len(samples)]
    ELSE LET r == ChunkAppend(c, samples[i].Ts, samples[i].Val)
         IN IF r.result # "ok" THEN [chunk |-> r.chunk, result |-> r.result, tried |-> i]
            ELSE AppendAll(r.chunk, samples, i + 1)

\* DB.Write for one label set: the samples are sorted and appended to the
\* series one by one; the error returned is always nil.
DbWrite(samples) ==
    /\ Len(gcAppended) + Len(samples) <= MaxSamples
    /\ LET sorted == SortSamples(samples)
           r == AppendAll(gcChunk, sorted, 1)
       IN /\ gcChunk' = r.chunk
          /\ gcLast' = [op |-> "Write", result |-> r.result, samples |-> <<>>,
                        err |-> "nil"]
          /\ gcAppended' = gcAppended \o SubSeq(sorted, 1, r.tried)
    /\ UNCHANGED notChunk

\* A reader iterates the chunk: for it.Next() { ... }, then it.Err. The first
\* Next returns false, so no sample is ever read.
GcIterate ==
    /\ LET r == IteratorNext(NewIterator, gcChunk)
       IN /\ ~r.more
          /\ gcLast' = [op |-> "Iterate", result |-> "ok", samples |-> <<>>,
                        err |-> r.it.Err]
    /\ UNCHANGED <<notChunk, gcChunk, gcAppended>>

\* Series.Samples: the samples the iterator yields within [minTs, maxTs]; the
\* iterator's Err is not looked at.
GcSamples(minTs, maxTs) ==
    /\ LET r == IteratorNext(NewIterator, gcChunk)
       IN /\ ~r.more
          /\ gcLast' = [op |-> "Samples", result |-> "ok", samples |-> <<>>,
                        err |-> "nil"]
    /\ UNCHANGED <<notChunk, gcChunk, gcAppended>>

NextChunk ==
    \/ \E ts \in Timestamps, v \in FloatValues : GcAppend(ts, v)
    \/ \E samples \in WriteBatches : DbWrite(samples)
    \/ GcIterate
    \/ GcSamples(0, MaxTs)

\* Samples appended to a series and read back.
SpecChunk == Init /\ [][NextChunk]_vars

\* The timestamps of the samples s never decrease.
NonDecreasing(s) == \A i \in 1..(Len(s) - 1) : s[i].Ts <= s[i + 1].Ts

\* C30: every Append of a sample with a timestamp not below the last returns,
\* and reading the chunk back gives the samples appended, without error.
C30_RoundTrip ==
    NonDecreasing(gcAppended) =>
        /\ gcLast.op = "Append" => gcLast.result = "ok"
        /\ gcLast.op = "Iterate" => gcLast.samples = gcAppended /\ gcLast.err = "nil"
        /\ gcLast.op = "Samples" => gcLast.samples = gcAppended

\* C31: an Append with a timestamp below the last one in the chunk is reported
\* as Invalid and leaves the chunk as it was.
C31_OutOfOrderRejected ==
    [][(/\ Len(gcAppended') = Len(gcAppended) + 1
        /\ gcChunk.numSamples > 0
        /\ gcAppended'[Len(gcAppended')].Ts < gcChunk.tLast)
       => (gcChunk' = gcChunk /\ gcLast'.result = "Invalid")]_vars

\* The bytes of buf: writeBit appends a byte whenever bitPos is a multiple of 8.
BufLen(c) == (c.bitPos + 7) \div 8

\* The 64 bits of a timestamp from 0 to MaxTs, and the 64 IEEE-754 bits of a
\* value (1.0 is sign 0, exponent 01111111111, mantissa 0), highest bit first.
TsBits(ts) == [i \in 1..64 |-> IF 64 - i <= 2 THEN (ts \div (2 ^ (64 - i))) % 2 ELSE 0]
ValBits(v) == [i \in 1..64 |-> IF v = "1.0" /\ i \in 3..12 THEN 1 ELSE 0]

\* C32: after the first Append the chunk holds the 64 bits of ts and the 64
\* bits of v, 128 bits in 16 bytes, and one sample.
C32_FirstSampleLayout ==
    Len(gcAppended) = 1 =>
        /\ gcChunk.numSamples = 1
        /\ gcChunk.bitPos = 128
        /\ gcChunk.buf = TsBits(gcAppended[1].Ts) \o ValBits(gcAppended[1].Val)
        /\ BufLen(gcChunk) = 16

C32_Witness ==
    /\ Len(gcAppended) = 1
    /\ gcAppended[1] = [Ts |-> 1, Val |-> "1.0"]
    /\ gcChunk.numSamples = 1

\* ======================================================================
\* Backpressure-aware streaming pipeline (challenge 07)
\* ======================================================================

\* The stages main adds and the items it pushes.
StageNames == {"parse", "sink"}
ItemIds == 1..2

\* Calls made on the streaming pipeline in a run.
MaxStreamCalls == 3

\* What every function of the streaming pipeline does: panic("implement me").
\* No stage, channel or worker is created; no ProcessFn is ever called.
StreamImplementMe == [result |-> "panic", processed |-> 0, errors |-> 0]

\* A call is made and ends with got.
StreamStep(op, a, got) ==
    /\ Len(spHist) < MaxStreamCalls
    /\ spHist' = Append(spHist, [op |-> op, a |-> a, result |-> got.result,
                                 processed |-> got.processed, errors |-> got.errors])
    /\ UNCHANGED notStream

NewPipeline == StreamStep("NewPipeline", "", StreamImplementMe) /\ spSunk' = spSunk

AddStage(name) == StreamStep("AddStage", name, StreamImplementMe) /\ spSunk' = spSunk

Connect(from, to) == StreamStep("Connect", from, StreamImplementMe) /\ spSunk' = spSunk

StreamStart == StreamStep("Start", "", StreamImplementMe) /\ spSunk' = spSunk

Push(item) == StreamStep("Push", item, StreamImplementMe) /\ spSunk' = spSunk

Drain == StreamStep("Drain", "", StreamImplementMe) /\ spSunk' = spSunk

\* Pipeline.Stats; processed and errors are those of the sink stage.
StreamStats == StreamStep("Stats", "", StreamImplementMe) /\ spSunk' = spSunk

NextStream ==
    \/ NewPipeline
    \/ \E name \in StageNames : AddStage(name)
    \/ Connect("parse", "sink")
    \/ StreamStart
    \/ \E item \in ItemIds : Push(item)
    \/ Drain
    \/ StreamStats

\* Any sequence of calls on the streaming pipeline.
SpecStream == Init /\ [][NextStream]_vars

\* The number of Push calls among the first n calls of h.
Pushed(h, n) == Cardinality({j \in 1..n : h[j].op = "Push"})

\* C33: Push and Drain return, and once Drain has returned the sink has
\* recorded every pushed item and its processed and errors counts add up to
\* the number of items pushed.
C33_NoItemLost ==
    \A i \in 1..Len(spHist) :
        /\ spHist[i].op \in {"Push", "Drain"} => spHist[i].result = "ok"
        /\ spHist[i].op = "Drain" => Len(spSunk) = Pushed(spHist, i)
        /\ (spHist[i].op = "Stats" /\ \E j \in 1..(i - 1) : spHist[j].op = "Drain") =>
              /\ spHist[i].result = "ok"
              /\ spHist[i].processed + spHist[i].errors = Pushed(spHist, i)

\* ======================================================================
\* Distributed task scheduler (project 02): store and worker pool
\* ======================================================================

\* The tasks submitted: a one-shot task and a recurring one.
TaskDefs == <<[Type |-> "send_email", Schedule |-> ""],
              [Type |-> "gen_report", Schedule |-> "0 8 * * MON"]>>
TaskIds == 1..Len(TaskDefs)
TaskTypes == {TaskDefs[i].Type : i \in TaskIds}

\* Task.MaxAttempts of the tasks submitted.
TaskMaxAttempts == 2

\* A store call succeeds, or returns an error and changes nothing (as every
\* method of SQLiteStore does).
StoreOutcomes == {"ok", "error"}

\* Store.Enqueue: a new pending task.
EnqueueTask(tasks, id) ==
    MapPut(tasks, id, [Type |-> TaskDefs[id].Type, Schedule |-> TaskDefs[id].Schedule,
                       Status |-> "pending", Attempts |-> 0, WorkerID |-> 0])

\* Store.ClaimNext: one pending task is set to running.
ClaimNext(tasks, id, workerID) ==
    [tasks EXCEPT ![id].Status = "running", ![id].WorkerID = workerID]

\* Store.MarkDone
MarkDone(tasks, id) == [tasks EXCEPT ![id].Status = "done"]

\* Store.MarkFailed: back to pending while attempts remain, dead otherwise.
MarkFailed(tasks, id) ==
    LET n == tasks[id].Attempts + 1
    IN [tasks EXCEPT ![id].Attempts = n,
                     ![id].Status = IF n >= TaskMaxAttempts THEN "dead" ELSE "pending"]

\* Store.Reschedule: pending again, with a new next_run_at.
Reschedule(tasks, id) == [tasks EXCEPT ![id].Status = "pending"]

\* The store after one call that ends with outcome.
StoreCall(tasks, op, id, outcome) ==
    IF outcome # "ok" THEN tasks
    ELSE IF op = "MarkDone" THEN MarkDone(tasks, id)
    ELSE IF op = "MarkFailed" THEN MarkFailed(tasks, id)
    ELSE Reschedule(tasks, id)

\* executeTask with its return after MarkFailed left out.
ExecuteTask_NoReturn(ok, err, schedule) ==
    IF ~ok THEN <<"MarkFailed">>
    ELSE IF err THEN <<"MarkFailed", "MarkDone">>
    ELSE IF schedule # "" THEN <<>>
    ELSE <<"MarkDone">>

\* Pool.executeTask: the store calls it makes for a task, given whether a
\* handler is registered for its type (ok) and whether the handler returned an
\* error (err). For a recurring task whose handler returned nil it makes none.
ExecuteTask(ok, err, schedule) ==
    IF ~ok THEN <<"MarkFailed">>
    ELSE IF err THEN <<"MarkFailed">>
    ELSE IF schedule # "" THEN <<>>
    ELSE <<"MarkDone">>

RECURSIVE StoreCalls(_, _, _, _)
\* The store after the calls ops for task id, each ending with outcome.
StoreCalls(tasks, ops, id, outcome) ==
    IF ops = <<>> THEN tasks
    ELSE StoreCalls(StoreCall(tasks, Head(ops), id, outcome), Tail(ops), id, outcome)

\* A client submits task id.
Enqueue(id) ==
    /\ id \notin DOMAIN tkTasks
    /\ tkTasks' = EnqueueTask(tkTasks, id)
    /\ UNCHANGED <<notPool, tkHandlers, tkCtxDone, tkWorkers, tkDrain>>

\* Pool.Register
Register(taskType) ==
    /\ taskType \notin tkHandlers
    /\ tkHandlers' = tkHandlers \cup {taskType}
    /\ UNCHANGED <<notPool, tkTasks, tkCtxDone, tkWorkers, tkDrain>>

\* Pool.Start: every worker goroutine is launched.
PoolStart ==
    /\ \A w \in Workers : tkWorkers[w].pc = "idle"
    /\ tkWorkers' = [w \in Workers |-> [tkWorkers[w] EXCEPT !.pc = "top"]]
    /\ UNCHANGED <<notPool, tkTasks, tkHandlers, tkCtxDone, tkDrain>>

\* The context is cancelled.
PoolCancel ==
    /\ ~tkCtxDone
    /\ tkCtxDone' = TRUE
    /\ UNCHANGED <<notPool, tkTasks, tkHandlers, tkWorkers, tkDrain>>

\* A worker that has left executeTask behind and is at pc: the task it
\* claimed last is no longer its concern.
Polling(at) == [pc |-> at, task |-> 0, result |-> "none", calls |-> <<>>]

\* runWorker, top of the loop: ctx.Done() is ready and the worker returns.
WorkerExit(w) ==
    /\ tkWorkers[w].pc = "top"
    /\ tkCtxDone
    /\ tkWorkers' = [tkWorkers EXCEPT ![w] = Polling("exited")]
    /\ UNCHANGED <<notPool, tkTasks, tkHandlers, tkCtxDone, tkDrain>>

\* runWorker: ClaimNext returns a task.
WorkerClaim(w, id) ==
    /\ tkWorkers[w].pc = "top"
    /\ ~tkCtxDone
    /\ id \in DOMAIN tkTasks
    /\ tkTasks[id].Status = "pending"
    /\ tkTasks' = ClaimNext(tkTasks, id, w)
    /\ tkWorkers' = [tkWorkers EXCEPT ![w] = [pc |-> "execute", task |-> id,
                                              result |-> "none", calls |-> <<>>]]
    /\ UNCHANGED <<notPool, tkHandlers, tkCtxDone, tkDrain>>

\* runWorker: ClaimNext returns (nil, nil); the worker waits for ctx.Done() or
\* the poll interval.
WorkerClaimNone(w) ==
    /\ tkWorkers[w].pc = "top"
    /\ ~tkCtxDone
    /\ \A id \in DOMAIN tkTasks : tkTasks[id].Status # "pending"
    /\ tkWorkers' = [tkWorkers EXCEPT ![w] = Polling("wait")]
    /\ UNCHANGED <<notPool, tkTasks, tkHandlers, tkCtxDone, tkDrain>>

\* runWorker: ClaimNext returns an error; the worker sleeps the poll interval.
WorkerClaimError(w) ==
    /\ tkWorkers[w].pc = "top"
    /\ ~tkCtxDone
    /\ tkWorkers' = [tkWorkers EXCEPT ![w] = Polling("sleep")]
    /\ UNCHANGED <<notPool, tkTasks, tkHandlers, tkCtxDone, tkDrain>>

\* runWorker: the sleep after an error ends.
WorkerSleepDone(w) ==
    /\ tkWorkers[w].pc = "sleep"
    /\ tkWorkers' = [tkWorkers EXCEPT ![w].pc = "top"]
    /\ UNCHANGED <<notPool, tkTasks, tkHandlers, tkCtxDone, tkDrain>>

\* runWorker: the select after an empty poll takes the timer, or ctx.Done()
\* when it is ready.
WorkerWaitDone(w, exit) ==
    /\ tkWorkers[w].pc = "wait"
    /\ exit => tkCtxDone
    /\ tkWorkers' = [tkWorkers EXCEPT ![w].pc = IF exit THEN "exited" ELSE "top"]
    /\ UNCHANGED <<notPool, tkTasks, tkHandlers, tkCtxDone, tkDrain>>

\* executeTask up to the handler: without a handler the task is marked failed.
WorkerExecute(w, outcome) ==
    /\ tkWorkers[w].pc = "execute"
    /\ LET id == tkWorkers[w].task
           ok == tkTasks[id].Type \in tkHandlers
           ops == ExecuteTask(FALSE, FALSE, tkTasks[id].Schedule)
       IN IF ok
          THEN /\ tkWorkers' = [tkWorkers EXCEPT ![w].pc = "handler"]
               /\ tkTasks' = tkTasks
          ELSE /\ tkWorkers' = [tkWorkers EXCEPT ![w].pc = "top",
                                                 ![w].result = "no handler",
                                                 ![w].calls = ops]
               /\ tkTasks' = StoreCalls(tkTasks, ops, id, outcome)
    /\ UNCHANGED <<notPool, tkHandlers, tkCtxDone, tkDrain>>

\* executeTask from the return of the handler on.
WorkerHandlerReturn(w, err, outcome) ==
    /\ tkWorkers[w].pc = "handler"
    /\ LET id == tkWorkers[w].task
           ops == ExecuteTask(TRUE, err, tkTasks[id].Schedule)
       IN /\ tkWorkers' = [tkWorkers EXCEPT ![w].pc = "top",
                                            ![w].result = IF err THEN "error" ELSE "nil",
                                            ![w].calls = ops]
          /\ tkTasks' = StoreCalls(tkTasks, ops, id, outcome)
    /\ UNCHANGED <<notPool, tkHandlers, tkCtxDone, tkDrain>>

\* Pool.Drain is called.
DrainBegin ==
    /\ tkDrain = "idle"
    /\ tkDrain' = "waiting"
    /\ UNCHANGED <<notPool, tkTasks, tkHandlers, tkCtxDone, tkWorkers>>

\* Pool.Drain: wg.Wait() has returned, no worker goroutine is left.
DrainDone ==
    /\ tkDrain = "waiting"
    /\ \A w \in Workers : tkWorkers[w].pc \in {"idle", "exited"}
    /\ tkDrain' = "returned"
    /\ UNCHANGED <<notPool, tkTasks, tkHandlers, tkCtxDone, tkWorkers>>

\* Pool.Drain: ShutdownTimeout has passed.
DrainTimeout ==
    /\ tkDrain = "waiting"
    /\ tkDrain' = "timed out"
    /\ UNCHANGED <<notPool, tkTasks, tkHandlers, tkCtxDone, tkWorkers>>

\* The steps of worker w.
WorkerNext(w) ==
    \/ WorkerExit(w)
    \/ \E id \in TaskIds : WorkerClaim(w, id)
    \/ WorkerClaimNone(w)
    \/ WorkerClaimError(w)
    \/ WorkerSleepDone(w)
    \/ \E exit \in BOOLEAN : WorkerWaitDone(w, exit)
    \/ \E outcome \in StoreOutcomes : WorkerExecute(w, outcome)
    \/ \E err \in BOOLEAN, outcome \in StoreOutcomes : WorkerHandlerReturn(w, err, outcome)

NextPool ==
    \/ \E id \in TaskIds : Enqueue(id)
    \/ \E taskType \in TaskTypes : Register(taskType)
    \/ PoolStart
    \/ PoolCancel
    \/ \E w \in Workers : WorkerNext(w)
    \/ DrainBegin
    \/ DrainDone
    \/ DrainTimeout

\* The worker pool polling a store.
SpecPool == Init /\ [][NextPool]_vars

\* The pool with goroutines that keep running and handlers that return; the
\* store does not fail for ever.
FairSpecPool ==
    /\ SpecPool
    /\ \A w \in Workers :
          /\ WF_vars(WorkerExit(w))
          /\ WF_vars(WorkerSleepDone(w))
          /\ WF_vars(\E exit \in BOOLEAN : WorkerWaitDone(w, exit))
          /\ WF_vars(\E outcome \in StoreOutcomes : WorkerExecute(w, outcome))
          /\ WF_vars(\E err \in BOOLEAN, outcome \in StoreOutcomes :
                         WorkerHandlerReturn(w, err, outcome))
    /\ WF_vars(DrainDone)

\* executeTask has returned for the task worker w claimed last.
Executed(w) == tkWorkers[w].task # 0 /\ tkWorkers[w].pc \notin {"execute", "handler"}

\* C34: when the handler of a claimed recurring task has returned nil, the
\* worker has rescheduled the task.
C34_RecurringRescheduled ==
    \A w \in Workers :
        (/\ Executed(w)
         /\ tkTasks[tkWorkers[w].task].Schedule # ""
         /\ tkWorkers[w].result = "nil")
        => tkWorkers[w].calls = <<"Reschedule">>

\* The one store call that finishes the one-shot task of worker w.
FinishingCalls(w) ==
    IF tkWorkers[w].result = "nil" THEN <<"MarkDone">> ELSE <<"MarkFailed">>

\* C36: a one-shot task a worker claimed is finished by exactly one store
\* call, MarkDone after a nil handler result and MarkFailed otherwise, made
\* before the worker polls again; once the context is cancelled every worker
\* exits and a waiting Drain returns.
C36_OneShotFinishedOnce ==
    /\ [](\A w \in Workers :
            /\ ~Executed(w) => tkWorkers[w].calls = <<>>
            /\ (Executed(w) /\ tkTasks[tkWorkers[w].task].Schedule = "") =>
                  tkWorkers[w].calls = FinishingCalls(w))
    /\ \A w \in Workers :
          (tkCtxDone /\ tkWorkers[w].pc # "idle") ~> (tkWorkers[w].pc = "exited")
    /\ (tkCtxDone /\ tkDrain = "waiting") ~> (tkDrain \in {"returned", "timed out"})

C36_Witness ==
    /\ tkCtxDone
    /\ tkDrain = "waiting"
    /\ \E w \in Workers :
          /\ Executed(w)
          /\ tkTasks[tkWorkers[w].task].Schedule = ""
          /\ tkTasks[tkWorkers[w].task].Status = "done"
          /\ tkWorkers[w].calls = <<"MarkDone">>
    /\ \E w \in Workers : tkWorkers[w].pc = "exited"

\* ======================================================================
\* Collaboration hub (project 03, package session)
\* ======================================================================

MaxHubCalls == 3

MsgInsert == "insert"
MsgDelete == "delete"
MsgAck == "ack"

\* The messages a client sends, each with whether its payload unmarshals
\* (ok) and, when it does, the id and the character the payload names
\* (InsertPayload.AfterID and .Char, DeletePayload.ID): an insert and a delete
\* that unmarshal, an insert that does not, and a message of another type.
HubMessages ==
    {[Type |-> MsgInsert, Payload |-> [ok |-> TRUE, id |-> ZeroID, char |-> "a"]],
     [Type |-> MsgDelete, Payload |-> [ok |-> TRUE, id |-> [seq |-> 1, node |-> 1], char |-> ""]],
     [Type |-> MsgInsert, Payload |-> [ok |-> FALSE, id |-> ZeroID, char |-> ""]],
     [Type |-> MsgAck, Payload |-> [ok |-> FALSE, id |-> ZeroID, char |-> ""]]}

\* What the history records as the message of a call that carries none.
NoMessage == [Type |-> "none", Payload |-> [ok |-> FALSE, id |-> ZeroID, char |-> ""]]

\* Document.Broadcast: under the read lock, Push msg to every session but
\* excludeID. A caller that finds mu held by a writer never gets the lock.
Broadcast(doc, inbox, msg, excludeID) ==
    IF doc.mu = "held"
    THEN [inbox |-> inbox, pushed |-> {}, result |-> "blocked"]
    ELSE [inbox |-> [s \in SessionIds |->
                        IF s \in doc.sessions \ {excludeID}
                        THEN Append(inbox[s], msg) ELSE inbox[s]],
          pushed |-> doc.sessions \ {excludeID},
          result |-> "returned"]

HubMore == Len(hubHist) < MaxHubCalls

\* Hub.Join: takes mu, registers the session, and reads rga.Text(), which
\* panics: mu is never released and no snapshot is pushed.
Join(sess) ==
    /\ HubMore
    /\ IF hubDoc.mu = "held"
       THEN /\ hubHist' = Append(hubHist, [op |-> "Join", sess |-> sess, msg |-> NoMessage,
                                           rga |-> hubDoc.rga, pushed |-> {},
                                           result |-> "blocked"])
            /\ UNCHANGED hubDoc
       ELSE LET text == RGAText(hubDoc.rga)
            IN /\ hubDoc' = [hubDoc EXCEPT !.sessions = @ \cup {sess}, !.mu = "held"]
               /\ hubHist' = Append(hubHist, [op |-> "Join", sess |-> sess, msg |-> NoMessage,
                                              rga |-> hubDoc.rga, pushed |-> {},
                                              result |-> text.result])
    /\ UNCHANGED <<notHub, hubInbox>>

\* Hub.Leave: takes mu and removes the session.
Leave(sess) ==
    /\ HubMore
    /\ IF hubDoc.mu = "held"
       THEN /\ hubHist' = Append(hubHist, [op |-> "Leave", sess |-> sess, msg |-> NoMessage,
                                           rga |-> hubDoc.rga, pushed |-> {},
                                           result |-> "blocked"])
            /\ UNCHANGED hubDoc
       ELSE /\ hubDoc' = [hubDoc EXCEPT !.sessions = @ \ {sess}]
            /\ hubHist' = Append(hubHist, [op |-> "Leave", sess |-> sess, msg |-> NoMessage,
                                           rga |-> hubDoc.rga, pushed |-> {},
                                           result |-> "returned"])
    /\ UNCHANGED <<notHub, hubInbox>>

\* Hub.Dispatch: an insert or a delete whose payload unmarshals is broadcast
\* to the other sessions; the RGA is not touched. Anything else is logged.
Dispatch(sess, msg) ==
    /\ HubMore
    /\ IF msg.Type \in {MsgInsert, MsgDelete} /\ msg.Payload.ok
       THEN LET got == Broadcast(hubDoc, hubInbox, msg, sess)
            IN /\ hubInbox' = got.inbox
               /\ hubHist' = Append(hubHist, [op |-> "Dispatch", sess |-> sess, msg |-> msg,
                                              rga |-> hubDoc.rga, pushed |-> got.pushed,
                                              result |-> got.result])
       ELSE /\ hubInbox' = hubInbox
            /\ hubHist' = Append(hubHist, [op |-> "Dispatch", sess |-> sess, msg |-> msg,
                                           rga |-> hubDoc.rga, pushed |-> {},
                                           result |-> "returned"])
    /\ UNCHANGED <<notHub, hubDoc>>

NextHub ==
    \/ \E sess \in SessionIds : Join(sess)
    \/ \E sess \in SessionIds : Leave(sess)
    \/ \E sess \in SessionIds, msg \in HubMessages : Dispatch(sess, msg)

SpecHub == Init /\ [][NextHub]_vars

\* The RGA holds the effect of the operation msg carries.
HubApplied(rga, msg) ==
    \E i \in DOMAIN rga.nodes :
        IF msg.Type = MsgInsert
        THEN rga.nodes[i].char = msg.Payload.char
             /\ rga.nodes[i].insertAfter = msg.Payload.id
        ELSE rga.nodes[i].id = msg.Payload.id /\ rga.nodes[i].deleted

\* C35: a dispatched insert or delete has been applied to the document's RGA
\* when Dispatch is over, and a Join returns after pushing the snapshot to the
\* session that joined.
C35_DispatchAppliesAndBroadcasts ==
    \A i \in DOMAIN hubHist :
        LET c == hubHist[i]
        IN /\ (c.op = "Dispatch" /\ c.msg.Type \in {MsgInsert, MsgDelete}
                 /\ c.msg.Payload.ok) =>
                 (c.result = "returned" /\ HubApplied(c.rga, c.msg)
                    /\ c.sess \notin c.pushed)
           /\ c.op = "Join" => (c.result = "returned" /\ c.pushed = {c.sess})

====
